---- MODULE Spec2Model ----
(***************************************************************************)
(* Verification model of tgcodex (codex-telegram-bot):                     *)
(*   - the JSON-RPC connection (codex/app_server_rpc.py),                  *)
(*   - the agent sessions AppServerSession (codex/app_server_backend.py)   *)
(*     and CodexRun (codex/cli_runner.py) with their reaper tasks,         *)
(*   - the per-chat turn orchestration (bot/commands.py, bot/callbacks.py) *)
(*     over the active-run row of the store (state/store.py).              *)
(*                                                                         *)
(* Spec         : one agent session: pump, reaper, consumer, cancel.       *)
(* FairSpec     : Spec with the fairness the asyncio scheduler provides.   *)
(* RpcSpec      : the connection with coroutines inside request().         *)
(* ChatSpec     : the text message handlers of one chat, and /exit.        *)
(* ApprovalSpec : the approval buttons of a chat, with its handlers.       *)
(***************************************************************************)
EXTENDS Integers, Sequences, FiniteSets, TLC

\* ------------------------------------------------------------------ bounds
NumCallers == 2      \* coroutines that call JsonRpcConnection.request()
MaxWire == 2         \* stdout lines fed to the session
MaxExtraClose == 1   \* close() calls besides turn/completed and the reaper
NumMsgs == 2         \* text messages of the chat (on_text_message tasks)
MaxEvents == 1       \* events a handler takes before the stream ends
MaxCallbacks == 1    \* approval buttons pressed (callback queries)
MaxExits == 1        \* /exit commands
MaxPrefixTokens == 3 \* largest prefix_tokens a call is made with
MaxTokens == 3       \* largest token count and context window reported
NumCallbacks == 2    \* approval callbacks handled concurrently
NumCompacts == 2     \* /compact commands of the chat
MaxStream == 4       \* bytes of the stdout stream fed to the line buffer

\* ApprovalsConfig.prefix_tokens default.
prefix_tokens == 2

\* ------------------------------------------------------------- session state
VARIABLES
    kind,        \* "app" (AppServerSession) or "cli" (CodexRun)
    next_id,     \* JsonRpcConnection._next_id
    pending,     \* keys of JsonRpcConnection._pending
    fut,         \* state of the future created for each request id
    rpc_closed,  \* JsonRpcConnection._closed
    closed,      \* AppServerSession._closed / CodexRun._closed
    queue,       \* the session's asyncio.Queue (None is the sentinel)
    yielded,     \* events handed to the consumer of events()
    consumerPc,  \* "waiting" in queue.get(), or "returned"
    callerPc,    \* position of each coroutine inside request()
    callerRid,   \* rid local of each coroutine inside request()
    stdin,       \* objects written to the subprocess stdin
    proc,        \* what handle.wait() will observe
    reaperPc,    \* position of the reap() task
    pumpPc,      \* stdout pump: "idle" or suspended in a decline write
    pumpRid,     \* id the pump is answering while suspended
    wire,        \* stdout lines fed so far, in wire order
    closeCalls,  \* external close() calls made so far
    closeLog,    \* callers of close() so far: the first one, and how many
    cancelled    \* cancel() has been called

sessVars == <<kind, next_id, pending, fut, rpc_closed, closed, queue, yielded,
              consumerPc, callerPc, callerRid, stdin, proc, reaperPc, pumpPc,
              pumpRid, wire, closeCalls, closeLog, cancelled>>

\* ---------------------------------------------------------------- chat state
VARIABLES
    backend,        \* runtime.codex: "adapter" (has start_run) or "app_server"
    policy,         \* the chat's approval_policy
    trusted,        \* trusted prefixes stored for the chat's machine and session
    machine,        \* kind of the chat's machine: "local", "ssh", "ssh_only"
    session,        \* the chat has an active_session_id
    lock,           \* holder of the chat's asyncio.Lock, 0 when free
    msgPc,          \* position of each on_text_message task
    msgRun,         \* run local of each task, 0 when none
    msgMachine,     \* machine_rt local of each task
    msgSession,     \* run.thread_id or state.active_session_id is set
    msgReply,       \* the status message the task sent, "-" when none
    clear_active_run_on_exit,  \* that local of each task
    startCalls,     \* start_run invocations made by each task
    arrived,        \* what each task found on arrival: "-", "idle", "startup", "active"
    active,         \* the active_run row of the chat
    active_runs,    \* runtime.active_runs[chat_id], 0 when absent
    next_run,       \* run ids handed out so far, plus one
    msgSeen,        \* events each task has taken from its run
    runStdin,       \* decisions written to each run's stdin
    runCancelled,   \* run.cancel() was called
    prompts,        \* approval prompts sent to the user, counted by kind
    approvalsSeen,  \* ExecApprovalRequest events consumed
    cbLog,          \* approval callbacks handled: input, row before, reply
    exits,          \* /exit commands handled
    events_iter,    \* events_iter local of each task: its run, and whether
                    \* the async generator has finished
    ssh_fallback_attempted,  \* that local of each task
    startLog        \* arguments of each task's start_run calls, in order

chatVars == <<backend, policy, trusted, machine, session, lock, msgPc, msgRun,
              msgMachine, msgSession, msgReply, clear_active_run_on_exit,
              startCalls, arrived, active, active_runs, next_run, msgSeen,
              runStdin, runCancelled, prompts, approvalsSeen, cbLog, exits,
              events_iter, ssh_fallback_attempted, startLog>>

\* The locals of the stream loop and the record of start_run calls.
loopVars == <<events_iter, ssh_fallback_attempted, startLog>>

\* ------------------------------------------------------------------------
\* Steps of cancel() and inputs of the pure functions under test.
VARIABLES
    cancelLog,      \* steps cancel() attempted on the handle, and how it ended
    callArgs,       \* arguments a pure function is called with
    callResult      \* what the call returned, NoResult before the call

callVars == <<callArgs, callResult>>

\* AppServerBackend.start_session and send_user_message on the session it
\* returns.
VARIABLES
    startPc,        \* position of start_session
    startSent,      \* methods of the requests written to the wire, in order
    thread_id,      \* session.thread_id, "None" when unset
    startRes,       \* what the thread request was answered with, "-" before
    sendResult      \* how send_user_message ended, "-" before the call

startVars == <<startPc, startSent, thread_id, startRes, sendResult>>

\* Concurrent on_callback_query tasks (the handler is registered non-blocking).
VARIABLES
    cbTask,         \* each task: its position, the run id of its button, its reply
    compact,        \* each on_compact call: its position, its run, its reply
    lineBuf         \* JsonLineBuffer: _buf, lines returned so far, bytes fed, feed calls

auxVars == <<cancelLog, callVars, startVars, cbTask, compact, lineBuf>>

\* No function under test in this behaviour; no call made yet.
NoCall == [fn |-> "-"]
NoResult == [fn |-> "-"]

\* JsonLineBuffer.__init__: an empty buffer; nothing fed yet.
NewLineBuffer == [_buf |-> <<>>, out |-> <<>>, fed |-> 0, feeds |-> 0]

\* A callback task that has not run yet.
NoTask == [pc |-> "new", run_id |-> 0, reply |-> "-"]

\* cancel() has not been called.
NoCancel == [attempted |-> <<>>, outcome |-> "-"]

vars == <<sessVars, chatVars, auxVars>>

Callers == 1..NumCallers

\* RequestId = str | int: a tagged value, so that 7 and "7" differ.
IntId(n) == [t |-> "int", v |-> n]
StrId(n) == [t |-> "str", v |-> n]
NoId == [t |-> "none", v |-> 0]

\* Python str(rid): an int id becomes its decimal string, a str id is itself.
PyStr(rid) == [t |-> "str", v |-> rid.v]

ServerRequestIds == {IntId(7), StrId(7)}

Sentinel == [type |-> "None", src |-> "close", seq |-> 0, cid |-> NoId]

Event(type, src, seq, cid) == [type |-> type, src |-> src, seq |-> seq, cid |-> cid]

\* ------------------------------------------------------ JsonRpcConnection
\* JsonRpcConnection.close: mark closed, fail every future of the map that is
\* not done, clear the map.
RpcCloseFut(f, pend) ==
    [r \in DOMAIN f |-> IF r \in pend /\ f[r] = "pending" THEN "closed" ELSE f[r]]

\* Object written by request(): {"id": rid, "method": ..., "params": ...}
RequestObj(rid) == [id |-> IntId(rid), what |-> "request", decision |-> "-"]

\* Object written by respond(): {"id": request_id, "result": {"decision": d}}
ResponseObj(rid, d) == [id |-> rid, what |-> "response", decision |-> d]

\* request(), up to its first suspension: take an id, create the future,
\* register it, then write_obj: raise when closed, else write and suspend in
\* handle.write_stdin.
Request(c) ==
    /\ kind = "app"
    /\ callerPc[c] = "idle"
    /\ callerRid' = [callerRid EXCEPT ![c] = next_id]
    /\ next_id' = next_id + 1
    /\ fut' = [fut EXCEPT ![next_id] = "pending"]
    /\ pending' = pending \cup {next_id}
    /\ IF rpc_closed
         THEN /\ callerPc' = [callerPc EXCEPT ![c] = "raised"]
              /\ stdin' = stdin
         ELSE /\ callerPc' = [callerPc EXCEPT ![c] = "writing"]
              /\ stdin' = Append(stdin, RequestObj(next_id))
    /\ UNCHANGED <<auxVars, chatVars, kind, rpc_closed, closed, queue, yielded, consumerPc, proc,
                   reaperPc, pumpPc, pumpRid, wire, closeCalls, closeLog, cancelled>>

\* handle.write_stdin returns (ok) or raises (a broken pipe on a local handle):
\* on return the coroutine goes on to `await fut`, on a raise it leaves
\* request() with the exception and the future stays registered.
WriteStdinDone(c, ok) ==
    /\ callerPc[c] = "writing"
    /\ callerPc' = [callerPc EXCEPT ![c] = IF ok THEN "awaiting" ELSE "raised"]
    /\ UNCHANGED <<auxVars, chatVars, kind, next_id, pending, fut, rpc_closed, closed, queue, yielded,
                   consumerPc, callerRid, stdin, proc, reaperPc, pumpPc, pumpRid,
                   wire, closeCalls, closeLog, cancelled>>

\* `return await fut`: resumes once the future is done.
AwaitFut(c) ==
    /\ callerPc[c] = "awaiting"
    /\ fut[callerRid[c]] # "pending"
    /\ callerPc' = [callerPc EXCEPT ![c] =
                       IF fut[callerRid[c]] = "result" THEN "returned" ELSE "raised"]
    /\ UNCHANGED <<auxVars, chatVars, kind, next_id, pending, fut, rpc_closed, closed, queue, yielded,
                   consumerPc, callerRid, stdin, proc, reaperPc, pumpPc, pumpRid,
                   wire, closeCalls, closeLog, cancelled>>

\* ------------------------------------------------------------ the session
\* A put that jumps the queue (a LIFO queue in place of the FIFO one).
PushEventFront(q, ev) == <<ev>> \o q

\* push_event: queue.put(ev) on an unbounded queue.
PushEvent(q, ev) == Append(q, ev)

RECURSIVE PushAll(_, _)
PushAll(q, evs) ==
    IF evs = <<>> THEN q ELSE PushAll(PushEvent(q, Head(evs)), Tail(evs))

\* close() without the `if self._closed: return` guard.
CloseQueueUnguarded(isClosed, q) == Append(q, Sentinel)

\* A close() that puts the sentinel at the head of the queue.
CloseQueueAhead(isClosed, q) == IF isClosed THEN q ELSE <<Sentinel>> \o q

\* AppServerSession.close / CodexRun.close applied to the flag and the queue.
CloseQueue(isClosed, q) == IF isClosed THEN q ELSE PushEvent(q, Sentinel)

\* A close() that leaves the connection as it is.
CloseRpcLeftOpen(isClosed) == rpc_closed

\* AppServerSession.close closes the connection unless the session is closed
\* already; CodexRun has no connection.
CloseRpcClosed(isClosed) == IF isClosed \/ kind = "cli" THEN rpc_closed ELSE TRUE

CloseFut(isClosed) ==
    IF isClosed \/ kind = "cli" THEN fut ELSE RpcCloseFut(fut, pending)

ClosePending(isClosed) == IF isClosed \/ kind = "cli" THEN pending ELSE {}

\* close() after the events `evs` were pushed by the same handler.
PushThenClose(evs, who) ==
    /\ queue' = CloseQueue(closed, PushAll(queue, evs))
    /\ closed' = TRUE
    /\ rpc_closed' = CloseRpcClosed(closed)
    /\ fut' = CloseFut(closed)
    /\ pending' = ClosePending(closed)
    /\ closeLog' = [first |-> IF closeLog.n = 0 THEN who ELSE closeLog.first,
                    n |-> closeLog.n + 1]

\* close() called by another owner of the session.
SessionClose ==
    /\ closeCalls < MaxExtraClose
    /\ closeCalls' = closeCalls + 1
    /\ PushThenClose(<<>>, "caller")
    /\ UNCHANGED <<auxVars, chatVars, kind, next_id, yielded, consumerPc, callerPc, callerRid, stdin,
                   proc, reaperPc, pumpPc, pumpRid, wire, cancelled>>

\* events(): one queue.get(); None ends the iteration.
ConsumerGet ==
    /\ consumerPc = "waiting"
    /\ queue # <<>>
    /\ queue' = Tail(queue)
    /\ IF Head(queue) = Sentinel
         THEN /\ consumerPc' = "returned"
              /\ yielded' = yielded
         ELSE /\ consumerPc' = consumerPc
              /\ yielded' = Append(yielded, Head(queue))
    /\ UNCHANGED <<auxVars, chatVars, kind, next_id, pending, fut, rpc_closed, closed, callerPc,
                   callerRid, stdin, proc, reaperPc, pumpPc, pumpRid, wire,
                   closeCalls, closeLog, cancelled>>

\* ------------------------------------------------------------ stdout pump
\* Methods of notifications the subprocess may send (one valid and one
\* degenerate payload where the handler tells them apart).
NotifMethods == {"thread/started", "turn/completed", "turn/completed:failed",
                 "item/agentMessage/delta", "item/agentMessage/delta:empty"}

ApprovalMethods == {"item/commandExecution/requestApproval",
                    "item/fileChange/requestApproval"}

RequestMethods == ApprovalMethods \cup {"unknown/request"}

\* AppServerSession._on_notification: the events a notification pushes.
NotifEvents(m, seq) ==
    CASE m = "thread/started" -> <<Event("ThreadStarted", "notif", seq, NoId)>>
      [] m = "turn/started" -> <<Event("TurnStarted", "notif", seq, NoId)>>
      [] m = "turn/completed" -> <<Event("TurnCompleted", "notif", seq, NoId)>>
      [] m = "turn/completed:failed" -> <<Event("TurnFailed", "notif", seq, NoId)>>
      [] m = "item/agentMessage/delta" -> <<Event("AgentMessageDelta", "notif", seq, NoId)>>
      [] OTHER -> <<>>

\* _on_notification closes the session after turn/completed.
NotifCloses(m) == m \in {"turn/completed", "turn/completed:failed"}

\* AppServerSession._on_server_request: the event an approval request pushes;
\* call_id is str(rid).
RequestEvents(m, rid, seq) ==
    IF m \in ApprovalMethods
      THEN <<Event("ExecApprovalRequest", "req", seq, PyStr(rid))>>
      ELSE <<>>

\* start_codex_process.on_stdout with parse_event_obj, for the line types a
\* CodexRun session is fed here.
CliLineTypes == {"thread.started", "turn.completed", "unknown.type"}

CliEvents(t, seq) ==
    CASE t = "thread.started" -> <<Event("ThreadStarted", "notif", seq, NoId)>>
      [] t = "turn.completed" -> <<Event("TurnCompleted", "notif", seq, NoId)>>
      [] OTHER -> <<>>

Line(k, m, id) == [k |-> k, m |-> m, id |-> id]

CanFeed ==
    /\ Len(wire) < MaxWire
    /\ reaperPc = "waiting"
    /\ pumpPc = "idle"

\* feed_stdout of one line holding a notification.
FeedNotification(m) ==
    /\ CanFeed
    /\ kind = "app"
    /\ wire' = Append(wire, Line("notif", m, NoId))
    /\ IF NotifCloses(m)
         THEN PushThenClose(NotifEvents(m, Len(wire) + 1), "turn")
         ELSE /\ queue' = PushAll(queue, NotifEvents(m, Len(wire) + 1))
              /\ UNCHANGED <<closed, rpc_closed, fut, pending, closeLog>>
    /\ UNCHANGED <<auxVars, chatVars, kind, next_id, yielded, consumerPc, callerPc, callerRid, stdin,
                   proc, reaperPc, pumpPc, pumpRid, closeCalls, cancelled>>

\* The "error" key of a response: missing, null, or an error object.
ErrorKinds == {"absent", "null", "object"}

\* A settlement that rejects whenever the key is there.
SettleByKey(error) == IF error # "absent" THEN "error" ELSE "result"

\* How _handle_incoming settles the future: set_exception when "error" is in
\* the object and is not None, set_result otherwise.
Settle(error) == IF error = "object" THEN "error" ELSE "result"

\* feed_stdout of one line holding a response: _handle_incoming pops the
\* future and settles it unless it is missing or done.
FeedResponse(rid, error) ==
    /\ CanFeed
    /\ kind = "app"
    /\ wire' = Append(wire, Line("resp", error, IntId(rid)))
    /\ pending' = pending \ {rid}
    /\ fut' = IF rid \in pending /\ fut[rid] = "pending"
                THEN [fut EXCEPT ![rid] = Settle(error)]
                ELSE fut
    /\ UNCHANGED <<auxVars, chatVars, kind, next_id, rpc_closed, closed, queue, yielded, consumerPc,
                   callerPc, callerRid, stdin, proc, reaperPc, pumpPc, pumpRid,
                   closeCalls, closeLog, cancelled>>

\* A handler that lets every request it does not know go unanswered.
DeclinesNone(m) == FALSE

\* _on_server_request: the methods that fall through to the decline (213-217).
Declines(m) == m \notin ApprovalMethods

\* feed_stdout of one line holding a server request: an approval request is
\* queued as ExecApprovalRequest, any other request is declined on the spot
\* (rpc.respond raises when the connection is closed; the raise is swallowed).
FeedServerRequest(m, rid) ==
    /\ CanFeed
    /\ kind = "app"
    /\ wire' = Append(wire, Line("req", m, rid))
    /\ queue' = PushAll(queue, RequestEvents(m, rid, Len(wire) + 1))
    /\ IF ~Declines(m) \/ rpc_closed
         THEN UNCHANGED <<stdin, pumpPc, pumpRid>>
         ELSE /\ stdin' = Append(stdin, ResponseObj(rid, "decline"))
              /\ pumpPc' = "responding"
              /\ pumpRid' = rid
    /\ UNCHANGED <<auxVars, chatVars, kind, next_id, pending, fut, rpc_closed, closed, yielded,
                   consumerPc, callerPc, callerRid, proc, reaperPc, closeCalls,
                   closeLog, cancelled>>

\* The decline write returns or raises; either way _on_server_request returns.
PumpRespondDone ==
    /\ pumpPc = "responding"
    /\ pumpPc' = "idle"
    /\ pumpRid' = NoId
    /\ UNCHANGED <<auxVars, chatVars, kind, next_id, pending, fut, rpc_closed, closed, queue, yielded,
                   consumerPc, callerPc, callerRid, stdin, proc, reaperPc, wire,
                   closeCalls, closeLog, cancelled>>

\* Non-empty lines that are no JSON object: text json.loads rejects
\* ("invalid"), or valid JSON of another type, such as 42, "ok", [1] or null
\* ("scalar").
LogForms == {"invalid", "scalar"}

\* What such a line becomes. feed_stdout hands a line json.loads rejects to
\* on_log (a LogLine) and skips a decoded value that is not a dict;
\* on_stdout pushes a LogLine for both (parse_json_line).
LogEvents(k, form, seq) ==
    IF k = "app" /\ form = "scalar" THEN <<>>
    ELSE <<Event("LogLine", "log", seq, NoId)>>

\* One stdout line that is not a JSON object.
FeedLog(form) ==
    /\ CanFeed
    /\ wire' = Append(wire, Line("log", form, NoId))
    /\ queue' = PushAll(queue, LogEvents(kind, form, Len(wire) + 1))
    /\ UNCHANGED <<auxVars, chatVars, kind, next_id, pending, fut, rpc_closed, closed, yielded,
                   consumerPc, callerPc, callerRid, stdin, proc, reaperPc, pumpPc,
                   pumpRid, closeCalls, closeLog, cancelled>>

\* One stdout line of a CodexRun session.
FeedCli(t) ==
    /\ CanFeed
    /\ kind = "cli"
    /\ wire' = Append(wire, Line("notif", t, NoId))
    /\ queue' = PushAll(queue, CliEvents(t, Len(wire) + 1))
    /\ UNCHANGED <<auxVars, chatVars, kind, next_id, pending, fut, rpc_closed, closed, yielded,
                   consumerPc, callerPc, callerRid, stdin, proc, reaperPc, pumpPc,
                   pumpRid, closeCalls, closeLog, cancelled>>

\* ------------------------------------------------- process, reaper, cancel
\* What handle.wait() observes: exit code 0, a nonzero exit code, or a raise.
ExitOutcomes == {"exit0", "exitN", "waiterr"}

ProcExit(o) ==
    /\ proc = "running"
    /\ proc' = o
    /\ UNCHANGED <<auxVars, chatVars, kind, next_id, pending, fut, rpc_closed, closed, queue, yielded,
                   consumerPc, callerPc, callerRid, stdin, reaperPc, pumpPc, pumpRid,
                   wire, closeCalls, closeLog, cancelled>>

\* A reaper that reports every exit, the clean one included.
ReapEventsAlways(o) == <<Event("ErrorEvent", "reaper", 0, NoId)>>

\* reap(): the ErrorEvent pushed for what wait() observed.
ReapEvents(o) ==
    IF o = "exit0" THEN <<>> ELSE <<Event("ErrorEvent", "reaper", 0, NoId)>>

\* reap(): wait() returns once the process has exited and the stdout pump has
\* drained; then the ErrorEvent if any, and finally close().
Reap ==
    /\ reaperPc = "waiting"
    /\ proc # "running"
    /\ pumpPc = "idle"
    /\ reaperPc' = "done"
    /\ PushThenClose(ReapEvents(proc), "reaper")
    /\ UNCHANGED <<auxVars, chatVars, kind, next_id, yielded, consumerPc, callerPc, callerRid, stdin,
                   proc, pumpPc, pumpRid, wire, closeCalls, cancelled>>

\* What terminate() and kill() achieve on the process: it dies with a nonzero
\* status, the transport is torn down and wait() reports 0, or nothing (the
\* signal could not be delivered and the error was swallowed).
CancelEffects == {"exitN", "exit0", "running"}

\* The part of the session cancel() changes besides the process: nothing.
CancelSession(isClosed) == isClosed

\* The calls cancel() makes on the process handle, in program order.
CancelSteps == <<"terminate", "kill", "close_stdin">>

\* A call made with no handler around it: an exception leaves cancel().
TryUnguarded(raised) == IF raised THEN "raise" ELSE "next"

\* try: await handle.step() / except Exception: pass. Whether the call
\* returned or raised, control reaches the statement after the try.
TryExceptPass(raised) == "next"

\* cancel() from its i-th call on; raises[i] tells whether that call raises.
RECURSIVE RunCancel(_, _, _)
RunCancel(i, raises, log) ==
    IF i > Len(CancelSteps)
    THEN [attempted |-> log, outcome |-> "returned"]
    ELSE LET log2 == Append(log, [step |-> CancelSteps[i], raised |-> raises[i]])
         IN  IF TryExceptPass(raises[i]) = "raise"
             THEN [attempted |-> log2, outcome |-> "raised"]
             ELSE RunCancel(i + 1, raises, log2)

\* Which of the three handle calls raise: any combination.
RaiseChoices == [1..Len(CancelSteps) -> BOOLEAN]

\* AppServerSession.cancel / CodexRun.cancel: terminate, kill, close stdin.
Cancel(effect, raises) ==
    /\ ~cancelled
    /\ cancelled' = TRUE
    /\ cancelLog' = RunCancel(1, raises, <<>>)
    /\ proc' = IF proc = "running" THEN effect ELSE proc
    /\ closed' = CancelSession(closed)
    /\ UNCHANGED <<callVars, startVars, lineBuf, cbTask, compact, chatVars, kind, next_id, pending, fut, rpc_closed, queue,
                   yielded, consumerPc, callerPc, callerRid, stdin, reaperPc,
                   pumpPc, pumpRid, wire, closeCalls, closeLog>>

\* ------------------------------------------------------- approvals (pure)
Msgs == 1..NumMsgs
Runs == 1..(2 * NumMsgs)
NoPending == [kind |-> "none"]
NONE == [run_id |-> 0, status |-> "-", pending |-> NoPending]

\* A command line is a sequence of lexemes separated by blanks: a bare word,
\* a quoted string (its words are one shell token), or an opening quote that
\* is never closed, which takes the rest of the line.
Lexeme(q, w) == [q |-> q, w |-> w]
GitStatus == <<Lexeme("bare", <<"git">>), Lexeme("bare", <<"status">>), Lexeme("bare", <<"-s">>)>>
QuotedGit == <<Lexeme("quoted", <<"git", "status">>), Lexeme("bare", <<"-s">>)>>
OpenQuote == <<Lexeme("bare", <<"git">>), Lexeme("open", <<"status", "-s">>)>>
Commands == {GitStatus, QuotedGit}
CallIds == {StrId(7)}

\* shlex.split(command, posix=True): the tokens of the line without their
\* quoting; ValueError ("No closing quotation") when a quote is left open.
shlex_split(command) ==
    IF \E i \in DOMAIN command : command[i].q = "open"
    THEN [raised |-> TRUE, tokens |-> <<>>]
    ELSE [raised |-> FALSE, tokens |-> [i \in DOMAIN command |-> command[i].w]]

\* The text of a lexeme cut at its blanks: the quote characters stay on the
\* words they touch.
RawWords(lex) ==
    [i \in DOMAIN lex.w |->
        <<(IF lex.q # "bare" /\ i = 1 THEN "\"" ELSE "") \o lex.w[i]
          \o (IF lex.q = "quoted" /\ i = Len(lex.w) THEN "\"" ELSE "")>>]

\* command.strip().split(): every blank-separated word is a token.
RECURSIVE whitespace_split(_)
whitespace_split(command) ==
    IF command = <<>> THEN <<>>
    ELSE RawWords(Head(command)) \o whitespace_split(Tail(command))

\* A split with no fallback: a line shlex rejects has no tokens.
shlex_only(command) == shlex_split(command).tokens

\* split_command: shlex.split, and on any exception the whitespace split.
split_command(command) ==
    LET r == shlex_split(command) IN
    IF r.raised THEN whitespace_split(command) ELSE r.tokens

\* prefix_string: " ".join of the first n tokens, a string of words.
RECURSIVE prefix_string(_, _)
prefix_string(tokens, n) ==
    IF n <= 0 \/ tokens = <<>> THEN <<>>
    ELSE Head(tokens) \o prefix_string(Tail(tokens), n - 1)

command_prefix(command, n) == prefix_string(split_command(command), n)

\* A match on the whole command line instead of its prefix.
is_trusted_whole(command, trusted_prefixes, n) ==
    [prefix |-> command_prefix(command, Len(command) + n),
     matched |-> command_prefix(command, Len(command) + n) \in trusted_prefixes]

is_trusted_prefix(command, trusted_prefixes, n) ==
    [prefix |-> command_prefix(command, n),
     matched |-> command_prefix(command, n) \in trusted_prefixes]

\* An approval check that lets a trusted prefix skip the prompt under
\* 'untrusted' as it does under 'on-request'.
should_prompt_trusting(approval_policy, command, trusted_prefixes, n) ==
    LET match == is_trusted_prefix(command, trusted_prefixes, n) IN
    IF approval_policy = "never" THEN <<FALSE, match.prefix>>
    ELSE IF approval_policy \in {"untrusted", "on-request"}
         THEN <<~match.matched, match.prefix>>
    ELSE <<TRUE, match.prefix>>

\* should_prompt_for_approval: (needs_prompt, canonical_prefix).
should_prompt_for_approval(approval_policy, command, trusted_prefixes, n) ==
    LET match == is_trusted_prefix(command, trusted_prefixes, n) IN
    IF approval_policy = "never" THEN <<FALSE, match.prefix>>
    ELSE IF approval_policy = "untrusted" THEN <<TRUE, match.prefix>>
    ELSE IF approval_policy = "on-request" THEN <<~match.matched, match.prefix>>
    ELSE IF approval_policy = "on-failure" THEN <<TRUE, match.prefix>>
    ELSE <<TRUE, match.prefix>>

\* dict.get: the value under a key, None when the key is absent.
Get(d, k) == IF k \in DOMAIN d THEN d[k] ELSE "None"

\* The pending action on_text_message stores for an ExecApprovalRequest.
ExecPending(command, call_id, prefix) ==
    [kind |-> "exec_approval", command |-> command, call_id |-> call_id,
     prefix |-> prefix]

\* The pending action on_text_message stores for a ToolStarted under untrusted.
ProxyPending(command) == [kind |-> "proxy_exec", command |-> command]

\* Store.set_active_run: the upsert of the chat's row.
set_active_run(run_id, status, pending_action) ==
    [run_id |-> run_id, status |-> status, pending |-> pending_action]

RunInProgress == "Run in progress. Use /exit to cancel."
FailedToStart == "Failed to start run."
StaleApproval == "Stale approval; no active run."
DecisionSent == "Decision sent"
FailedToSend == "Failed to send approval"

\* CodexRun.send_exec_approval: the op envelope under a fresh id.
ExecApprovalOp(decision, call_id) ==
    [id |-> NoId, what |-> "op", decision |-> decision, call_id |-> call_id]

\* AppServerSession.respond_approval: the response to the server request.
ApprovalResponse(rpc_id, decision) ==
    [id |-> rpc_id, what |-> "response", decision |-> decision, call_id |-> NoId]

\* The decision a button stands for (on_callback_query).
Decision(action, pend) ==
    IF action = "reject" THEN "decline"
    ELSE IF action = "approve_similar"
         THEN (IF Get(pend, "request_kind") = "commandExecution"
                  /\ Get(pend, "proposed_execpolicy_amendment") # "None"
               THEN "acceptWithExecpolicyAmendment" ELSE "acceptForSession")
    ELSE "accept"

\* on_callback_query without the check of the run id against the row.
CallbackOutcomeAnyRun(act, runs, run_id, canRespond, sendOk) ==
    IF act = NONE \/ act.pending = NoPending THEN "No pending approval."
    ELSE IF Get(act.pending, "type") # "approval_request" THEN "Pending action mismatch."
    ELSE IF runs = 0 THEN "Run handle missing (restart?)."
    ELSE IF Get(act.pending, "request_kind") \notin {"commandExecution", "fileChange"}
         THEN "Pending approval missing request kind."
    ELSE IF "rpc_id" \notin DOMAIN act.pending THEN "Pending approval missing rpc id."
    ELSE IF canRespond /\ sendOk THEN DecisionSent
    ELSE FailedToSend

\* on_callback_query: the reply the handler ends with, which names its branch.
CallbackOutcome(act, runs, run_id, canRespond, sendOk) ==
    IF act = NONE \/ act.run_id # run_id THEN StaleApproval
    ELSE IF act.pending = NoPending THEN "No pending approval."
    ELSE IF Get(act.pending, "type") # "approval_request" THEN "Pending action mismatch."
    ELSE IF runs = 0 THEN "Run handle missing (restart?)."
    ELSE IF Get(act.pending, "request_kind") \notin {"commandExecution", "fileChange"}
         THEN "Pending approval missing request kind."
    ELSE IF "rpc_id" \notin DOMAIN act.pending THEN "Pending approval missing rpc id."
    ELSE IF canRespond /\ sendOk THEN DecisionSent
    ELSE FailedToSend

\* A check of the row that takes only 'running' for an active turn.
IsRunning(act) == act # NONE /\ act.status = "running"

\* A test that takes any chat for busy.
IsActiveAlways(act) == TRUE

\* The test of on_text_message on the active row (commands.py 860).
IsActive(act) == act # NONE /\ act.status \in {"running", "waiting_approval"}
InStartup(m) == msgPc[m] \in {"starting", "starting_fb"}

\* -------------------------------------------------------- on_text_message
\* The arguments of a start_run call the model keeps: the machine it targets
\* and whether session_id names a thread to resume.
StartArgs(target, resume) == [target |-> target, resume |-> resume]

\* A fallback that is itself reached over ssh.
FallbackSame(cur) == cur

\* _pick_fallback_local_machine_name: only a machine of type local is picked.
FallbackMachine(cur) == "local"

\* No iterator yet; run.events() of run r, an async generator not yet finished.
NoIter == [run |-> 0, done |-> FALSE]
EventsOf(r) == [run |-> r, done |-> FALSE]

\* The iterator the failover leaves in events_iter when it forgets line 1106.
KeepIter(it, r) == it

\* events_iter = run.events() after the replacement run was recorded.
NewIter(it, r) == EventsOf(r)

\* What the body under the lock does on entry (commands.py 851-909): the
\* check of the active row, then the call of runtime.codex.start_run, which
\* AppServerBackend does not have (AttributeError, handled as a failed start).
Enter(m, how) ==
    /\ lock' = m
    /\ arrived' = [arrived EXCEPT ![m] = IF @ = "-" THEN how ELSE @]
    /\ msgMachine' = [msgMachine EXCEPT ![m] = machine]
    /\ msgSession' = [msgSession EXCEPT ![m] = session]
    /\ IF IsActive(active)
         THEN /\ msgReply' = [msgReply EXCEPT ![m] = RunInProgress]
              /\ msgPc' = [msgPc EXCEPT ![m] = "replying"]
              /\ UNCHANGED <<startCalls, machine>>
              /\ UNCHANGED <<session, trusted, startLog>>
       ELSE IF backend = "app_server"
         THEN /\ msgReply' = [msgReply EXCEPT ![m] = FailedToStart]
              /\ msgPc' = [msgPc EXCEPT ![m] = "replying"]
              /\ machine' = IF machine = "ssh" THEN "local" ELSE machine
              /\ session' = IF machine = "ssh" THEN FALSE ELSE session
              /\ trusted' = IF machine = "ssh" THEN {} ELSE trusted
              /\ UNCHANGED <<startCalls, startLog>>
       ELSE /\ startCalls' = [startCalls EXCEPT ![m] = @ + 1]
            /\ startLog' = [startLog EXCEPT ![m] = Append(@, StartArgs(machine, session))]
            /\ msgPc' = [msgPc EXCEPT ![m] = "starting"]
            /\ UNCHANGED <<msgReply, machine, session, trusted>>
    /\ UNCHANGED <<auxVars, sessVars, events_iter, ssh_fallback_attempted, backend,
                   policy, msgRun, clear_active_run_on_exit, active, active_runs,
                   next_run, msgSeen, runStdin, runCancelled, prompts,
                   approvalsSeen, cbLog, exits>>

\* The handler is called and finds the lock free: no suspension before the check.
MsgArrive(m) ==
    /\ msgPc[m] = "new"
    /\ lock = 0
    /\ Enter(m, IF IsActive(active) THEN "active" ELSE "idle")

\* The handler is called while another task holds the lock: it waits.
MsgWait(m) ==
    /\ msgPc[m] = "new"
    /\ lock # 0
    /\ msgPc' = [msgPc EXCEPT ![m] = "waiting_lock"]
    /\ arrived' = [arrived EXCEPT ![m] = IF InStartup(lock) THEN "startup" ELSE "idle"]
    /\ UNCHANGED <<auxVars, sessVars, loopVars, backend, policy, trusted, machine, session, lock,
                   msgRun, msgMachine, msgSession, msgReply,
                   clear_active_run_on_exit, startCalls, active, active_runs,
                   next_run, msgSeen, runStdin, runCancelled, prompts,
                   approvalsSeen, cbLog, exits>>

\* A waiting handler gets the lock once it is released.
MsgAcquire(m) ==
    /\ msgPc[m] = "waiting_lock"
    /\ lock = 0
    /\ Enter(m, arrived[m])

\* The status message is sent under the lock; the return releases it.
MsgReturn(m) ==
    /\ msgPc[m] = "replying"
    /\ msgPc' = [msgPc EXCEPT ![m] = "done"]
    /\ lock' = 0
    /\ msgMachine' = [msgMachine EXCEPT ![m] = "-"]
    /\ msgSession' = [msgSession EXCEPT ![m] = FALSE]
    /\ UNCHANGED <<auxVars, sessVars, loopVars, backend, policy, trusted, machine, session, msgRun,
                   msgReply, clear_active_run_on_exit, startCalls, arrived,
                   active, active_runs, next_run, msgSeen, runStdin,
                   runCancelled, prompts, approvalsSeen, cbLog, exits>>

\* start_run returns a run (commands.py 975-976): the handle and the row are
\* recorded, then the lock is released and streaming begins.
StartOk(m) ==
    /\ InStartup(m)
    /\ msgRun' = [msgRun EXCEPT ![m] = next_run]
    /\ next_run' = next_run + 1
    /\ active_runs' = next_run
    /\ active' = set_active_run(next_run, "running", NoPending)
    /\ msgPc' = [msgPc EXCEPT ![m] = "streaming"]
    /\ lock' = 0
    /\ events_iter' = [events_iter EXCEPT ![m] = EventsOf(next_run)]
    /\ ssh_fallback_attempted' = [ssh_fallback_attempted EXCEPT ![m] = FALSE]
    /\ UNCHANGED <<auxVars, sessVars, startLog, backend, policy, trusted, machine,
                   session, msgMachine, msgSession, msgReply,
                   clear_active_run_on_exit, startCalls, arrived, msgSeen,
                   runStdin, runCancelled, prompts, approvalsSeen, cbLog, exits>>

\* start_run raises (commands.py 910-974): on an ssh machine with a local
\* fallback the chat moves to the local machine (set_machine clears the
\* stored session) and start_run is called again with session_id=None;
\* otherwise "Failed to start run." is sent.
StartFail(m) ==
    /\ InStartup(m)
    /\ IF msgPc[m] = "starting" /\ msgMachine[m] = "ssh"
         THEN /\ machine' = FallbackMachine(msgMachine[m])
              /\ session' = FALSE
              /\ trusted' = {}
              /\ msgMachine' = [msgMachine EXCEPT ![m] = FallbackMachine(@)]
              /\ msgSession' = [msgSession EXCEPT ![m] = FALSE]
              /\ startCalls' = [startCalls EXCEPT ![m] = @ + 1]
              /\ startLog' = [startLog EXCEPT ![m] =
                                Append(@, StartArgs(FallbackMachine(msgMachine[m]), FALSE))]
              /\ msgPc' = [msgPc EXCEPT ![m] = "starting_fb"]
              /\ UNCHANGED msgReply
       ELSE /\ msgReply' = [msgReply EXCEPT ![m] = FailedToStart]
            /\ msgPc' = [msgPc EXCEPT ![m] = "replying"]
            /\ UNCHANGED <<machine, session, trusted, msgMachine, msgSession,
                           startCalls, startLog>>
    /\ UNCHANGED <<auxVars, sessVars, events_iter, ssh_fallback_attempted, backend,
                   policy, lock, msgRun, clear_active_run_on_exit, arrived,
                   active, active_runs, next_run, msgSeen, runStdin,
                   runCancelled, prompts, approvalsSeen, cbLog, exits>>

\* The trusted prefixes the handler reads: none without a session id.
TrustedFor(m) == IF msgSession[m] THEN trusted ELSE {}

\* An event the stream loop handles without touching the row: ThreadStarted
\* records the session id, message and token events only produce output.
StreamPlain(m, isThreadStarted) ==
    /\ msgPc[m] = "streaming"
    /\ ~events_iter[m].done
    /\ msgSeen[m] < MaxEvents
    /\ msgSeen' = [msgSeen EXCEPT ![m] = @ + 1]
    /\ IF isThreadStarted
         THEN /\ msgSession' = [msgSession EXCEPT ![m] = TRUE]
              /\ session' = TRUE
         ELSE UNCHANGED <<msgSession, session>>
    /\ UNCHANGED <<auxVars, sessVars, loopVars, backend, policy, trusted, machine, lock, msgPc,
                   msgRun, msgMachine, msgReply, clear_active_run_on_exit,
                   startCalls, arrived, active, active_runs, next_run,
                   runStdin, runCancelled, prompts, approvalsSeen, cbLog,
                   exits>>

\* ExecApprovalRequest (commands.py 1142-1214): auto-approve through
\* send_exec_approval, whose write may raise, or record the pending action
\* and send the prompt with its buttons.
StreamApproval(m, command, call_id, writeOk) ==
    LET r == msgRun[m]
        sp == should_prompt_for_approval(policy, command, TrustedFor(m), prefix_tokens)
    IN
    /\ msgPc[m] = "streaming"
    /\ ~events_iter[m].done
    /\ msgSeen[m] < MaxEvents
    /\ msgSeen' = [msgSeen EXCEPT ![m] = @ + 1]
    /\ approvalsSeen' = approvalsSeen + 1
    /\ IF ~sp[1]
         THEN /\ IF writeOk
                   THEN /\ runStdin' = [runStdin EXCEPT ![r] =
                                          Append(@, ExecApprovalOp("approved", call_id))]
                        /\ UNCHANGED msgPc
                 ELSE /\ msgPc' = [msgPc EXCEPT ![m] = "finally"]
                      /\ UNCHANGED runStdin
              /\ UNCHANGED <<active, prompts>>
       ELSE /\ writeOk
            /\ active' = set_active_run(r, "waiting_approval",
                                        ExecPending(command, call_id, sp[2]))
            /\ prompts' = [prompts EXCEPT !.exec_approval = @ + 1]
            /\ UNCHANGED <<runStdin, msgPc>>
    /\ UNCHANGED <<auxVars, sessVars, loopVars, backend, policy, trusted, machine, session, lock,
                   msgRun, msgMachine, msgSession, msgReply,
                   clear_active_run_on_exit, startCalls, arrived, active_runs,
                   next_run, runCancelled, cbLog, exits>>

\* ToolStarted (commands.py 1216-1325): under 'untrusted' the command is put
\* behind a proxy approval, the row is kept for the callback, the run is
\* cancelled and the loop left; otherwise the command is only displayed.
StreamToolStarted(m, command) ==
    LET r == msgRun[m] IN
    /\ msgPc[m] = "streaming"
    /\ ~events_iter[m].done
    /\ msgSeen[m] < MaxEvents
    /\ msgSeen' = [msgSeen EXCEPT ![m] = @ + 1]
    /\ IF policy = "untrusted"
         THEN /\ active' = set_active_run(r, "waiting_approval", ProxyPending(command))
              /\ prompts' = [prompts EXCEPT !.proxy_exec = @ + 1]
              /\ clear_active_run_on_exit' = [clear_active_run_on_exit EXCEPT ![m] = FALSE]
              /\ runCancelled' = [runCancelled EXCEPT ![r] = TRUE]
              /\ msgPc' = [msgPc EXCEPT ![m] = "finally"]
       ELSE UNCHANGED <<active, prompts, clear_active_run_on_exit, runCancelled, msgPc>>
    /\ UNCHANGED <<auxVars, sessVars, loopVars, backend, policy, trusted, machine, session, lock,
                   msgRun, msgMachine, msgSession, msgReply, startCalls,
                   arrived, active_runs, next_run, runStdin, approvalsSeen,
                   cbLog, exits>>

\* The event stream ends (commands.py 1016-1017): __anext__ raises
\* StopAsyncIteration, because the run queued its sentinel or because the
\* generator has already finished, and the loop is left for the finally block.
StreamEnd(m) ==
    /\ msgPc[m] = "streaming"
    /\ msgPc' = [msgPc EXCEPT ![m] = "finally"]
    /\ UNCHANGED <<auxVars, sessVars, loopVars, backend, policy, trusted, machine, session, lock,
                   msgRun, msgMachine, msgSession, msgReply,
                   clear_active_run_on_exit, startCalls, arrived, active,
                   active_runs, next_run, msgSeen, runStdin, runCancelled,
                   prompts, approvalsSeen, cbLog, exits>>

\* The reply of the branch at commands.py 1029-1035.
StillUnreachable == "SSH machine could not be reached. Please /machine local and try again."

\* The reply of the branch at commands.py 1038-1045.
NoFallback == "SSH machine could not be reached, and no local fallback machine is configured."

\* Machines of type ssh: "ssh" next to a local machine that
\* _pick_fallback_local_machine_name finds, "ssh_only" with none configured.
SshMachines == {"ssh", "ssh_only"}

\* asyncio.wait_for(events_iter.__anext__(), timeout) cancels the pending
\* __anext__ when the timeout expires: CancelledError is raised inside
\* events() at its queue.get(), nothing in the generator catches it, and an
\* async generator that an exception has left is finished for good.
AfterTimeout(it) == [it EXCEPT !.done = TRUE]

\* No event arrives from a run on an ssh machine within the timeout
\* (commands.py 1009-1065). The probe tells whether the machine answers: if
\* it does the loop continues; if not, and no failover was made yet for this
\* message, the user is told, run.cancel() is awaited (bounded by
\* SSH_CANCEL_TIMEOUT_SECONDS, errors swallowed) and the failover follows.
StreamTimeout(m, reachable) ==
    /\ msgPc[m] = "streaming"
    /\ msgMachine[m] \in SshMachines
    /\ ~events_iter[m].done
    /\ events_iter' = [events_iter EXCEPT ![m] = AfterTimeout(@)]
    /\ IF reachable
         THEN UNCHANGED <<msgPc, msgReply, ssh_fallback_attempted, runCancelled>>
       ELSE IF ssh_fallback_attempted[m]
         THEN /\ msgReply' = [msgReply EXCEPT ![m] = StillUnreachable]
              /\ msgPc' = [msgPc EXCEPT ![m] = "finally"]
              /\ UNCHANGED <<ssh_fallback_attempted, runCancelled>>
       ELSE /\ ssh_fallback_attempted' = [ssh_fallback_attempted EXCEPT ![m] = TRUE]
            /\ IF msgMachine[m] = "ssh_only"
                 THEN /\ msgReply' = [msgReply EXCEPT ![m] = NoFallback]
                      /\ msgPc' = [msgPc EXCEPT ![m] = "finally"]
                      /\ UNCHANGED runCancelled
               ELSE /\ runCancelled' = [runCancelled EXCEPT ![msgRun[m]] = TRUE]
                    /\ msgPc' = [msgPc EXCEPT ![m] = "cancelling"]
                    /\ UNCHANGED msgReply
    /\ UNCHANGED <<auxVars, sessVars, startLog, backend, policy, trusted, machine,
                   session, lock, msgRun, msgMachine, msgSession,
                   clear_active_run_on_exit, startCalls, arrived, active,
                   active_runs, next_run, msgSeen, runStdin, prompts,
                   approvalsSeen, cbLog, exits>>

\* The failover after the cancel (commands.py 1067-1096): set_machine moves
\* the chat to the local machine and clears its stored session, then
\* start_run is called on that machine with session_id=None.
Failover(m) ==
    /\ msgPc[m] = "cancelling"
    /\ machine' = FallbackMachine(msgMachine[m])
    /\ session' = FALSE
    /\ trusted' = {}
    /\ msgMachine' = [msgMachine EXCEPT ![m] = FallbackMachine(@)]
    /\ msgSession' = [msgSession EXCEPT ![m] = FALSE]
    /\ startCalls' = [startCalls EXCEPT ![m] = @ + 1]
    /\ startLog' = [startLog EXCEPT ![m] =
                      Append(@, StartArgs(FallbackMachine(msgMachine[m]), FALSE))]
    /\ msgPc' = [msgPc EXCEPT ![m] = "failover"]
    /\ UNCHANGED <<auxVars, sessVars, events_iter, ssh_fallback_attempted, backend,
                   policy, lock, msgRun, msgReply, clear_active_run_on_exit,
                   arrived, active, active_runs, next_run, msgSeen, runStdin,
                   runCancelled, prompts, approvalsSeen, cbLog, exits>>

\* The start_run of the failover returns or raises (commands.py 1097-1109):
\* the new run replaces the handle, the row and the iterator, or the loop is
\* left with "Failed to start run.".
FailoverDone(m, ok) ==
    /\ msgPc[m] = "failover"
    /\ IF ok
         THEN /\ msgRun' = [msgRun EXCEPT ![m] = next_run]
              /\ next_run' = next_run + 1
              /\ active_runs' = next_run
              /\ active' = set_active_run(next_run, "running", NoPending)
              /\ events_iter' = [events_iter EXCEPT ![m] = NewIter(@, next_run)]
              /\ msgPc' = [msgPc EXCEPT ![m] = "streaming"]
              /\ UNCHANGED msgReply
       ELSE /\ msgReply' = [msgReply EXCEPT ![m] = FailedToStart]
            /\ msgPc' = [msgPc EXCEPT ![m] = "finally"]
            /\ UNCHANGED <<msgRun, next_run, active_runs, active, events_iter>>
    /\ UNCHANGED <<auxVars, sessVars, ssh_fallback_attempted, startLog, backend,
                   policy, trusted, machine, session, lock, msgMachine,
                   msgSession, clear_active_run_on_exit, startCalls, arrived,
                   msgSeen, runStdin, runCancelled, prompts, approvalsSeen,
                   cbLog, exits>>

\* The finally block (commands.py 1376-1396): the chat's handle is dropped
\* and, unless a proxy approval keeps it, the row is deleted.
StreamFinally(m) ==
    /\ msgPc[m] = "finally"
    /\ active_runs' = 0
    /\ active' = IF clear_active_run_on_exit[m] THEN NONE ELSE active
    /\ msgPc' = [msgPc EXCEPT ![m] = "done"]
    /\ msgRun' = [msgRun EXCEPT ![m] = 0]
    /\ msgMachine' = [msgMachine EXCEPT ![m] = "-"]
    /\ msgSession' = [msgSession EXCEPT ![m] = FALSE]
    /\ clear_active_run_on_exit' = [clear_active_run_on_exit EXCEPT ![m] = TRUE]
    /\ events_iter' = [events_iter EXCEPT ![m] = NoIter]
    /\ ssh_fallback_attempted' = [ssh_fallback_attempted EXCEPT ![m] = FALSE]
    /\ UNCHANGED <<auxVars, sessVars, startLog, backend, policy, trusted, machine, session, lock,
                   msgReply, startCalls, arrived, next_run, msgSeen, runStdin,
                   runCancelled, prompts, approvalsSeen, cbLog, exits>>

\* ------------------------------------------------------ on_callback_query
\* Only an AppServerSession has respond_approval; start_run hands out
\* CodexRun objects, on which the call raises AttributeError.
CanRespond == backend = "app_server"

\* An approval button "<action>:<run_id>" is pressed (callbacks.py 463-541).
OnCallbackQuery(action, run_id, sendOk) ==
    LET reply == CallbackOutcome(active, active_runs, run_id, CanRespond, sendOk)
        decision == Decision(action, active.pending)
    IN
    /\ Len(cbLog) < MaxCallbacks
    /\ cbLog' = Append(cbLog, [action |-> action, run_id |-> run_id,
                               before |-> active, reply |-> reply,
                               decision |-> decision])
    /\ active' = IF reply = "Run handle missing (restart?)." THEN NONE
                 ELSE IF reply = DecisionSent
                      THEN set_active_run(run_id, "running", NoPending)
                 ELSE active
    /\ runStdin' = IF reply = DecisionSent
                     THEN [runStdin EXCEPT ![active_runs] =
                             Append(@, ApprovalResponse(Get(active.pending, "rpc_id"), decision))]
                   ELSE runStdin
    /\ UNCHANGED <<auxVars, sessVars, loopVars, backend, policy, trusted, machine, session, lock,
                   msgPc, msgRun, msgMachine, msgSession, msgReply,
                   clear_active_run_on_exit, startCalls, arrived, active_runs,
                   next_run, msgSeen, runCancelled, prompts, approvalsSeen,
                   exits>>

\* /exit (commands.py 271-283): cancel the chat's run, drop the handle,
\* delete the row, clear the session.
on_exit ==
    /\ exits < MaxExits
    /\ exits' = exits + 1
    /\ runCancelled' = IF active_runs = 0 THEN runCancelled
                       ELSE [runCancelled EXCEPT ![active_runs] = TRUE]
    /\ active_runs' = 0
    /\ active' = NONE
    /\ session' = FALSE
    /\ UNCHANGED <<auxVars, sessVars, loopVars, backend, policy, trusted, machine, lock, msgPc,
                   msgRun, msgMachine, msgSession, msgReply,
                   clear_active_run_on_exit, startCalls, arrived, next_run,
                   msgSeen, runStdin, prompts, approvalsSeen, cbLog>>

Policies == {"untrusted", "on-request", "on-failure", "never"}
Actions == {"approve_once", "approve_similar", "reject"}

ChatInit ==
    /\ backend \in {"adapter", "app_server"}
    /\ policy \in {"untrusted", "on-request"}
    /\ trusted \in {{}, {<<"git", "status">>}}
    /\ machine \in {"local"} \cup SshMachines
    /\ session \in BOOLEAN
    /\ lock = 0
    /\ msgPc = [m \in Msgs |-> "new"]
    /\ msgRun = [m \in Msgs |-> 0]
    /\ msgMachine = [m \in Msgs |-> "-"]
    /\ msgSession = [m \in Msgs |-> FALSE]
    /\ msgReply = [m \in Msgs |-> "-"]
    /\ clear_active_run_on_exit = [m \in Msgs |-> TRUE]
    /\ startCalls = [m \in Msgs |-> 0]
    /\ arrived = [m \in Msgs |-> "-"]
    /\ active = NONE
    /\ active_runs = 0
    /\ next_run = 1
    /\ msgSeen = [m \in Msgs |-> 0]
    /\ runStdin = [r \in Runs |-> <<>>]
    /\ runCancelled = [r \in Runs |-> FALSE]
    /\ prompts = [exec_approval |-> 0, proxy_exec |-> 0]
    /\ approvalsSeen = 0
    /\ cbLog = <<>>
    /\ exits = 0
    /\ events_iter = [m \in Msgs |-> NoIter]
    /\ ssh_fallback_attempted = [m \in Msgs |-> FALSE]
    /\ startLog = [m \in Msgs |-> <<>>]

\* The chat of a freshly built application, nothing received yet.
ChatIdle ==
    /\ ChatInit
    /\ backend = "app_server"
    /\ policy = "untrusted"
    /\ trusted = {}
    /\ machine = "local"
    /\ session = FALSE

\* ------------------------------------------------------------ specification
SessInit ==
    /\ kind \in {"app", "cli"}
    /\ next_id = 1
    /\ pending = {}
    /\ fut = [r \in 1..NumCallers |-> "absent"]
    /\ rpc_closed = FALSE
    /\ closed = FALSE
    /\ queue = <<>>
    /\ yielded = <<>>
    /\ consumerPc = "waiting"
    /\ callerPc = [c \in Callers |-> "idle"]
    /\ callerRid = [c \in Callers |-> 0]
    /\ stdin = <<>>
    /\ proc = "running"
    /\ reaperPc = "waiting"
    /\ pumpPc = "idle"
    /\ pumpRid = NoId
    /\ wire = <<>>
    /\ closeCalls = 0
    /\ closeLog = [first |-> "none", n |-> 0]
    /\ cancelled = FALSE
    /\ cancelLog = NoCancel
    /\ startPc = "idle"
    /\ cbTask = [t \in 1..NumCallbacks |-> NoTask]
    /\ compact = [c \in 1..NumCompacts |-> NoTask]
    /\ lineBuf = NewLineBuffer
    /\ startSent = <<>>
    /\ thread_id = "None"
    /\ startRes = "-"
    /\ sendResult = "-"
    /\ callResult = NoResult

Init == SessInit /\ ChatIdle /\ callArgs = NoCall

\* One session over its whole life: stdout lines, consumer, reaper, cancel.
Next ==
    \/ SessionClose
    \/ ConsumerGet
    \/ \E m \in NotifMethods : FeedNotification(m)
    \/ \E m \in RequestMethods, r \in ServerRequestIds : FeedServerRequest(m, r)
    \/ PumpRespondDone
    \/ \E f \in LogForms : FeedLog(f)
    \/ \E t \in CliLineTypes : FeedCli(t)
    \/ \E o \in ExitOutcomes : ProcExit(o)
    \/ Reap
    \/ \E e \in CancelEffects, r \in RaiseChoices : Cancel(e, r)

Spec == Init /\ [][Next]_vars

\* The asyncio loop runs every task that is ready: the reaper once wait()
\* can return, the pump's pending write, the consumer of events().
FairSpec ==
    /\ Spec
    /\ WF_vars(Reap)
    /\ WF_vars(PumpRespondDone)
    /\ WF_vars(ConsumerGet)

\* The connection of an AppServerSession with coroutines inside request().
RpcInit == SessInit /\ kind = "app" /\ ChatIdle /\ callArgs = NoCall

RpcNext ==
    \/ \E c \in Callers : Request(c)
    \/ \E c \in Callers, ok \in BOOLEAN : WriteStdinDone(c, ok)
    \/ \E c \in Callers : AwaitFut(c)
    \/ \E r \in 1..NumCallers, e \in ErrorKinds : FeedResponse(r, e)
    \/ FeedNotification("turn/completed")
    \/ ProcExit("exitN")
    \/ Reap

RpcSpec == RpcInit /\ [][RpcNext]_vars

\* The text message handlers of one chat, their runs, and /exit.
ChatSpecInit == ChatInit /\ SessInit /\ kind = "cli" /\ callArgs = NoCall

ChatNext ==
    \/ \E m \in Msgs : MsgArrive(m)
    \/ \E m \in Msgs : MsgWait(m)
    \/ \E m \in Msgs : MsgAcquire(m)
    \/ \E m \in Msgs : MsgReturn(m)
    \/ \E m \in Msgs : StartOk(m)
    \/ \E m \in Msgs : StartFail(m)
    \/ \E m \in Msgs, t \in BOOLEAN : StreamPlain(m, t)
    \/ \E m \in Msgs, c \in Commands, i \in CallIds, ok \in BOOLEAN :
          StreamApproval(m, c, i, ok)
    \/ \E m \in Msgs, c \in Commands : StreamToolStarted(m, c)
    \/ \E m \in Msgs : StreamEnd(m)
    \/ \E m \in Msgs, r \in BOOLEAN : StreamTimeout(m, r)
    \/ \E m \in Msgs : Failover(m)
    \/ \E m \in Msgs, ok \in BOOLEAN : FailoverDone(m, ok)
    \/ \E m \in Msgs : StreamFinally(m)
    \/ on_exit

ChatSpec == ChatSpecInit /\ [][ChatNext]_vars

\* The approval buttons of a chat on a local machine, with its handlers.
ApprovalInit == ChatSpecInit /\ machine = "local"

ApprovalNext ==
    \/ \E m \in Msgs : MsgArrive(m)
    \/ \E m \in Msgs : MsgWait(m)
    \/ \E m \in Msgs : MsgAcquire(m)
    \/ \E m \in Msgs : MsgReturn(m)
    \/ \E m \in Msgs : StartOk(m)
    \/ \E m \in Msgs : StartFail(m)
    \/ \E m \in Msgs, t \in BOOLEAN : StreamPlain(m, t)
    \/ \E m \in Msgs, c \in Commands, i \in CallIds, ok \in BOOLEAN :
          StreamApproval(m, c, i, ok)
    \/ \E m \in Msgs, c \in Commands : StreamToolStarted(m, c)
    \/ \E m \in Msgs : StreamEnd(m)
    \/ \E m \in Msgs : StreamFinally(m)
    \/ \E a \in Actions, r \in Msgs, ok \in BOOLEAN : OnCallbackQuery(a, r, ok)

ApprovalSpec == ApprovalInit /\ [][ApprovalNext]_vars

\* The approval check and the prefix function on their own: one call with
\* arguments drawn from every policy, well-formed and malformed command
\* lines, stored prefixes and token counts.
PolicyChoices == Policies \cup {"unless-trusted"}
CommandChoices == Commands \cup {OpenQuote, <<Lexeme("bare", <<"ls">>)>>, <<>>}
TrustedChoices == SUBSET {<<"git", "status">>, <<"ls">>}
PrefixTokenChoices == 0..MaxPrefixTokens

PrefixInit ==
    /\ SessInit /\ kind = "cli" /\ ChatIdle
    /\ callArgs \in [fn : {"approvals"}, approval_policy : PolicyChoices,
                     command : CommandChoices, trusted_prefixes : TrustedChoices,
                     prefix_tokens : PrefixTokenChoices]

CallShouldPrompt ==
    /\ callArgs.fn = "approvals"
    /\ callResult = NoResult
    /\ callResult' = [fn |-> "should_prompt_for_approval",
                      value |-> should_prompt_for_approval(
                                    callArgs.approval_policy, callArgs.command,
                                    callArgs.trusted_prefixes, callArgs.prefix_tokens)]
    /\ UNCHANGED <<sessVars, chatVars, cancelLog, lineBuf, cbTask, compact, startVars, callArgs>>

CallCommandPrefix ==
    /\ callArgs.fn = "approvals"
    /\ callResult = NoResult
    /\ callResult' = [fn |-> "command_prefix",
                      value |-> command_prefix(callArgs.command, callArgs.prefix_tokens)]
    /\ UNCHANGED <<sessVars, chatVars, cancelLog, lineBuf, cbTask, compact, startVars, callArgs>>

PrefixNext == CallShouldPrompt \/ CallCommandPrefix

PrefixSpec == PrefixInit /\ [][PrefixNext]_vars

\* ---------------------------------------------------------- parse_event_obj
\* The JSON values a field of a decoded object may hold, by type: the key is
\* missing, null, a non-empty string, a non-zero number, a non-empty object,
\* a list of strings, a list of numbers.
JsonKinds == {"absent", "null", "string", "number", "object",
              "array_of_strings", "array_of_numbers"}

\* Python truthiness and the methods the parser relies on.
Truthy(v) == v \notin {"absent", "null"}
IsDict(v) == v = "object"
IsList(v) == v \in {"array_of_strings", "array_of_numbers"}
IsStr(v) == v = "string"

\* An event, by the name of its class.
Ev(name) == [type |-> name]

\* The outcome of a parse: the events returned, or the exception raised.
Returns(events) == [raised |-> "-", events |-> events]
Raises(exc) == [raised |-> exc, events |-> <<>>]

\* " ".join(cmd) and "".join(texts): str.join accepts only str items.
StrJoin(v, events) ==
    IF v = "array_of_strings" THEN Returns(events) ELSE Raises("TypeError")

\* 'turn.completed' (events.py 193-199): usage = obj.get("usage") or {};
\* usage.get(...) is called on whatever truthy value the field holds.
parse_turn_completed(usage) ==
    IF Truthy(usage) /\ ~IsDict(usage) THEN Raises("AttributeError")
    ELSE Returns(<<Ev("TurnCompleted")>>)

\* _parse_item for a command_execution item (events.py 428-444): only a
\* completed item is handled, its command joined when it is a list.
parse_item(status, command) ==
    IF status # "completed" THEN Returns(<<>>)
    ELSE IF IsList(command) THEN StrJoin(command, <<Ev("ExecCommandEnd")>>)
    ELSE Returns(<<Ev("ExecCommandEnd")>>)

\* 'item.started' with a command_execution item (events.py 169-182).
parse_item_started(command) ==
    LET parsed == parse_item("in_progress", command) IN
    IF parsed.events # <<>> THEN parsed
    ELSE IF ~Truthy(command) THEN Returns(<<>>)
    ELSE IF IsList(command) THEN StrJoin(command, <<Ev("ToolStarted")>>)
    ELSE Returns(<<Ev("ToolStarted")>>)

\* 'message' of role assistant whose content is a list with one output_text
\* part (events.py 389-399): part.get("text", "") goes to "".join unchecked.
parse_message(text) ==
    IF text = "absent" THEN Returns(<<>>)
    ELSE IF IsStr(text) THEN Returns(<<Ev("AgentMessage")>>)
    ELSE Raises("TypeError")

\* The "id" next to "msg" in an envelope: no envelope at all, a non-empty
\* string, or a number.
EnvelopeKinds == {"none", "str", "int"}

\* A legacy wrapper around the object: none, or {"type": ..., "payload": obj}.
WrapperKinds == {"none", "event_msg", "response_item"}

\* outer_id (events.py 142-147): the envelope's id when it is a non-empty
\* string.
outer_id_of(obj) == IF obj.envelope = "str" THEN "str" ELSE "None"

\* An approval event with its correlation fields.
ExecApprovalRequest(call_id, outer_id) ==
    [type |-> "ExecApprovalRequest",
     call_id |-> IF call_id = "str" THEN "str" ELSE "None",
     outer_id |-> outer_id]

\* The command of an approval object: a list is joined after str() of each
\* item, anything that is not a string then counts as no command.
ApprovalCmds == {"absent", "empty", "string", "list"}
HasCommand(cmd) == cmd \in {"string", "list"}

\* type 'exec_approval_request' (events.py 348-372), and the item of that
\* type in _parse_item (events.py 446-468).
parse_exec_approval_request(obj, outer_id) ==
    IF HasCommand(obj.cmd)
    THEN Returns(<<ExecApprovalRequest(obj.call_id, outer_id)>>)
    ELSE Returns(<<>>)

\* The "arguments" of a function call: missing, an object, a string holding
\* a JSON object, a string that is not JSON.
ArgumentKinds == {"absent", "object", "json_string", "bad_string"}

\* args.get("sandbox_permissions"): missing, a string that starts with
\* "require", another string, a number.
SandboxKinds == {"absent", "require_escalated", "use_default", "number"}

\* A function call that is shown as a tool start whatever it asks for.
parse_function_call_started(obj, outer_id) ==
    IF obj.arguments \in {"object", "json_string"} /\ HasCommand(obj.cmd)
    THEN Returns(<<Ev("ToolStarted")>>)
    ELSE Returns(<<>>)

\* type 'function_call' with name exec_command (events.py 307-341).
parse_function_call(obj, outer_id) ==
    IF obj.arguments \in {"object", "json_string"} /\ HasCommand(obj.cmd)
    THEN (IF obj.sandbox_permissions = "require_escalated"
          THEN Returns(<<ExecApprovalRequest(obj.call_id, outer_id)>>)
          ELSE Returns(<<Ev("ToolStarted")>>))
    ELSE Returns(<<>>)

\* The types of object the parser is given here, each with one field whose
\* value varies: usage, item.command, item.command, content[0].text,
\* thread_id, error, info, and an object of a type the parser does not know.
ObjTypes == {"turn.completed", "item.started", "item.completed", "message",
             "thread.started", "turn.failed", "token_count", "custom.event"}

\* The objects an approval can come from: the direct form, an item, a
\* function call.
ApprovalTypes == {"exec_approval_request", "item.started", "item.completed",
                  "function_call"}

\* The parser past the envelope and the legacy wrapper (events.py 156-401).
parse_unwrapped(obj, outer_id) ==
    CASE obj.type = "turn.completed" -> parse_turn_completed(obj.field)
      [] obj.type \in {"item.started", "item.completed"}
            /\ obj.item_type = "exec_approval_request" ->
             parse_exec_approval_request(obj, outer_id)
      [] obj.type = "item.started" -> parse_item_started(obj.field)
      [] obj.type = "item.completed" -> parse_item("completed", obj.field)
      [] obj.type = "message" -> parse_message(obj.field)
      [] obj.type = "thread.started" ->
             IF IsStr(obj.field) THEN Returns(<<Ev("ThreadStarted")>>) ELSE Returns(<<>>)
      [] obj.type = "turn.failed" -> Returns(<<Ev("TurnFailed")>>)
      [] obj.type = "token_count" -> Returns(<<Ev("TokenCount")>>)
      [] obj.type = "function_call" -> parse_function_call(obj, outer_id)
      [] obj.type = "exec_approval_request" -> parse_exec_approval_request(obj, outer_id)
      [] OTHER -> Returns(<<>>)

\* parse_event_obj (events.py 132-401): the envelope {"id", "msg"} is
\* unwrapped and its id kept; a legacy wrapper is answered by parsing its
\* payload afresh, as an object of its own.
parse_event_obj(obj) ==
    IF obj.wrapper # "none"
    THEN parse_unwrapped(obj, "None")
    ELSE parse_unwrapped(obj, outer_id_of(obj))

ParseInit ==
    /\ SessInit /\ kind = "cli" /\ ChatIdle
    /\ callArgs \in
          [fn : {"parse_event_obj"}, type : ObjTypes, field : JsonKinds,
           envelope : EnvelopeKinds, wrapper : {"none"},
           item_type : {"command_execution"}, arguments : {"absent"},
           cmd : {"absent"}, sandbox_permissions : {"absent"}, call_id : {"absent"}]
          \cup
          [fn : {"parse_event_obj"}, type : ApprovalTypes, field : {"absent"},
           envelope : EnvelopeKinds, wrapper : WrapperKinds,
           item_type : {"exec_approval_request"}, arguments : ArgumentKinds,
           cmd : ApprovalCmds, sandbox_permissions : SandboxKinds,
           call_id : {"absent", "str", "int"}]

CallParse ==
    /\ callArgs.fn = "parse_event_obj"
    /\ callResult = NoResult
    /\ callResult' = [fn |-> "parse_event_obj", out |-> parse_event_obj(callArgs)]
    /\ UNCHANGED <<sessVars, chatVars, cancelLog, lineBuf, cbTask, compact, startVars, callArgs>>

ParseNext == CallParse

ParseSpec == ParseInit /\ [][ParseNext]_vars

\* ---------------------------------------------------------- JsonRpcIncoming
\* What the "id" and "method" keys of a decoded object may hold, and its
\* "error" key; whether the id is the key of a pending future.
IdKinds == {"absent", "null", "int", "str", "float"}
MethodChoices == {"absent", "number", "turn/completed",
                  "item/commandExecution/requestApproval", "unknown/request"}

\* JsonRpcIncoming.id / .method: the value when it has the right type, else None.
incoming_id(obj) == IF obj.id \in {"int", "str"} THEN obj.id ELSE "None"
incoming_method(obj) == IF obj.method \in {"absent", "number"} THEN "None" ELSE obj.method

is_response(obj) == incoming_id(obj) # "None" /\ incoming_method(obj) = "None"
is_request(obj) == incoming_id(obj) # "None" /\ incoming_method(obj) # "None"

\* A notification test that looks at the method only.
is_notification_any(obj) == incoming_method(obj) # "None"

is_notification(obj) == incoming_id(obj) = "None" /\ incoming_method(obj) # "None"

\* The classes an object falls in.
Classes(obj) ==
    {c \in {"response", "request", "notification"} :
        \/ c = "response" /\ is_response(obj)
        \/ c = "request" /\ is_request(obj)
        \/ c = "notification" /\ is_notification(obj)}

\* _handle_incoming on an open connection: the handlers called, in order,
\* the objects they write to stdin, and what happens to the future.
handle_incoming(obj) ==
    IF is_response(obj)
    THEN [handlers |-> <<"response">>, written |-> 0,
          future |-> IF ~obj.pending THEN "dropped"
                     ELSE Settle(obj.error)]
    ELSE IF is_request(obj)
    THEN [handlers |-> <<"on_server_request">>,
          written |-> IF Declines(incoming_method(obj)) THEN 1 ELSE 0,
          future |-> "-"]
    ELSE IF is_notification(obj)
    THEN [handlers |-> <<"on_notification">>, written |-> 0, future |-> "-"]
    ELSE [handlers |-> <<"on_log">>, written |-> 0, future |-> "-"]

ClassifyInit ==
    /\ SessInit /\ kind = "app" /\ ChatIdle
    /\ callArgs \in [fn : {"_handle_incoming"}, id : IdKinds, method : MethodChoices,
                     error : ErrorKinds, pending : BOOLEAN]

CallHandleIncoming ==
    /\ callArgs.fn = "_handle_incoming"
    /\ callResult = NoResult
    /\ callResult' = [fn |-> "_handle_incoming", classes |-> Classes(callArgs),
                      out |-> handle_incoming(callArgs)]
    /\ UNCHANGED <<sessVars, chatVars, cancelLog, lineBuf, cbTask, compact, startVars, callArgs>>

ClassifyNext == CallHandleIncoming

ClassifySpec == ClassifyInit /\ [][ClassifyNext]_vars

\* --------------------------------------------------------- respond_approval
\* A JSON object as the set of its leaves: the keys on the way down, and the
\* value found there.
Leaf(path, v) == [path |-> path, leaf |-> v]

RequestKinds == {"commandExecution", "fileChange", "patchApply"}
Decisions == {"accept", "acceptForSession", "decline", "cancel",
              "acceptWithExecpolicyAmendment"}
AmendmentChoices == {"None", "list"}

\* A result that carries the amendment next to the decision.
approval_result_sibling(request_kind, decision, execpolicy_amendment) ==
    IF request_kind = "commandExecution"
    THEN (IF decision = "acceptWithExecpolicyAmendment"
          THEN (IF execpolicy_amendment = "None"
                THEN [raised |-> "AssertionError", result |-> {}]
                ELSE [raised |-> "None",
                      result |-> {Leaf(<<"decision">>, decision),
                                  Leaf(<<"execpolicy_amendment">>, execpolicy_amendment)}])
          ELSE [raised |-> "None", result |-> {Leaf(<<"decision">>, decision)}])
    ELSE IF request_kind = "fileChange"
    THEN [raised |-> "None", result |-> {Leaf(<<"decision">>, decision)}]
    ELSE [raised |-> "ValueError", result |-> {}]

\* respond_approval, up to the call of rpc.respond: the result object, or
\* the exception raised before anything is sent.
approval_result(request_kind, decision, execpolicy_amendment) ==
    IF request_kind = "commandExecution"
    THEN (IF decision = "acceptWithExecpolicyAmendment"
          THEN (IF execpolicy_amendment = "None"
                THEN [raised |-> "AssertionError", result |-> {}]
                ELSE [raised |-> "None",
                      result |-> {Leaf(<<"decision", "acceptWithExecpolicyAmendment",
                                         "execpolicy_amendment">>, execpolicy_amendment)}])
          ELSE [raised |-> "None", result |-> {Leaf(<<"decision">>, decision)}])
    ELSE IF request_kind = "fileChange"
    THEN [raised |-> "None", result |-> {Leaf(<<"decision">>, decision)}]
    ELSE [raised |-> "ValueError", result |-> {}]

\* Object written by respond(): {"id": request_id, "result": result}
RespondObj(request_id, result) == [id |-> request_id, what |-> "response", result |-> result]

RespondInit ==
    /\ SessInit /\ kind = "app" /\ ChatIdle
    /\ callArgs \in [fn : {"respond_approval"}, rpc_id : ServerRequestIds,
                     request_kind : RequestKinds, decision : Decisions,
                     execpolicy_amendment : AmendmentChoices]

\* One call of respond_approval: build the result, then rpc.respond, whose
\* write_obj raises on a closed connection.
CallRespondApproval ==
    LET r == approval_result(callArgs.request_kind, callArgs.decision,
                             callArgs.execpolicy_amendment)
        exc == IF r.raised # "None" THEN r.raised
               ELSE IF rpc_closed THEN "JsonRpcError" ELSE "None"
    IN
    /\ callArgs.fn = "respond_approval"
    /\ callResult = NoResult
    /\ callResult' = [fn |-> "respond_approval", raised |-> exc]
    /\ stdin' = IF exc = "None"
                  THEN Append(stdin, RespondObj(callArgs.rpc_id, r.result))
                  ELSE stdin
    /\ UNCHANGED <<chatVars, cancelLog, lineBuf, cbTask, compact, startVars, callArgs, kind, next_id, pending, fut, rpc_closed,
                   closed, queue, yielded, consumerPc, callerPc, callerRid, proc,
                   reaperPc, pumpPc, pumpRid, wire, closeCalls, closeLog, cancelled>>

RespondNext == SessionClose \/ CallRespondApproval

RespondSpec == RespondInit /\ [][RespondNext]_vars

\* ---------------------------------------------------------- token telemetry
\* An Optional[int]: None, or an integer.
OptInts == [present : BOOLEAN, v : 0..MaxTokens]
None == [present |-> FALSE, v |-> 0]
Some(n) == [present |-> TRUE, v |-> n]
Norm(o) == IF o.present THEN o ELSE None

\* The TokenCount event, as far as the context telemetry reads it.
TokenCount(model_context_window, total_tokens) ==
    [model_context_window |-> Norm(model_context_window),
     total_tokens |-> Norm(total_tokens)]

\* A token_count line of the CLI (events.py 229-260): info holds
\* model_context_window, last_token_usage and total_token_usage; the usage
\* read is `last_token_usage or total_token_usage`.
parse_token_count(info) ==
    LET usage == IF info.last.present THEN info.last ELSE info.total IN
    TokenCount(info.window, usage)

\* A thread/tokenUsage/updated notification of the app server
\* (app_server_backend.py 299-331): tokenUsage holds modelContextWindow,
\* last and total; the handler reads usage.get("total").
token_usage_updated(tokenUsage) ==
    TokenCount(tokenUsage.window, tokenUsage.total)

Max(a, b) == IF a >= b THEN a ELSE b

\* Store.update_token_telemetry: the columns written for the context; a
\* column that is not written keeps its old value.
update_token_telemetry(token) ==
    [last_total_tokens |-> token.total_tokens,
     last_context_window |-> token.model_context_window,
     last_context_remaining |->
         IF token.total_tokens.present /\ token.model_context_window.present
         THEN Some(Max(token.model_context_window.v - token.total_tokens.v, 0))
         ELSE None]

Dialects == {"cli", "app"}

TokenInit ==
    /\ SessInit /\ ChatIdle
    /\ callArgs \in [fn : {"token_usage"}, dialect : Dialects, window : OptInts,
                     last : OptInts, total : OptInts]
    /\ kind = callArgs.dialect
    /\ \A f \in {"window", "last", "total"} : callArgs[f] = Norm(callArgs[f])

\* A token-usage line is mapped to a TokenCount and the event persisted by
\* the message handler (commands.py 1337-1339).
CallTokenUsage ==
    /\ callArgs.fn = "token_usage"
    /\ callResult = NoResult
    /\ callResult' =
          [fn |-> "update_token_telemetry",
           fields |-> update_token_telemetry(
                          IF callArgs.dialect = "cli"
                          THEN parse_token_count(callArgs)
                          ELSE token_usage_updated(callArgs))]
    /\ UNCHANGED <<sessVars, chatVars, cancelLog, lineBuf, cbTask, compact, startVars, callArgs>>

TokenNext == CallTokenUsage

TokenSpec == TokenInit /\ [][TokenNext]_vars

(***************************************************************************)
(* daemon.stop (daemon.py 256-309) and the guard against pid reuse,        *)
(* _is_expected_process (daemon.py 161-201).  The inputs are what the pid  *)
(* file holds and what the operating system answers: whether the pid is    *)
(* running, the start time and command line read from /proc, whether       *)
(* os.kill raises, and when the process exits after the signal.            *)
(***************************************************************************)
\* The pid written in the pid file (the one the stop tests use).
RecordedPid == 123

NoRecord == [pid |-> 0, argv |-> "empty", start_time |-> "None"]
Argvs == {"tgcodex_run", "other"}
StartTimes == {"t1", "t2"}
PidRecords == [pid : {RecordedPid}, argv : {"empty"} \cup Argvs,
               start_time : {"None", "t1"}]

\* _looks_like_tgcodex_process: the command line names tgcodex and has the
\* token "run".
_looks_like_tgcodex_process(cmdline) == cmdline = "tgcodex_run"

_is_expected_process_lenient(record, os_state) ==
    LET start_read == record.start_time # "None" /\ os_state.start_time # "None"
        cmd_read == os_state.cmdline # "None"
    IN  IF start_read /\ os_state.start_time # record.start_time THEN FALSE
        ELSE IF cmd_read /\ record.argv # "empty" /\ os_state.cmdline # record.argv
             THEN FALSE
        ELSE IF cmd_read /\ record.argv = "empty"
                /\ ~_looks_like_tgcodex_process(os_state.cmdline)
             THEN FALSE
        ELSE TRUE

_is_expected_process(record, os_state) ==
    LET start_read == record.start_time # "None" /\ os_state.start_time # "None"
        cmd_read == os_state.cmdline # "None"
        inspected == start_read \/ cmd_read
    IN  IF start_read /\ os_state.start_time # record.start_time THEN FALSE
        ELSE IF cmd_read /\ record.argv # "empty" /\ os_state.cmdline # record.argv
             THEN FALSE
        ELSE IF cmd_read /\ record.argv = "empty"
                /\ ~_looks_like_tgcodex_process(os_state.cmdline)
             THEN FALSE
        ELSE inspected

ExitKinds == {"at_once", "later", "never"}
Timeouts == {"zero", "positive"}

StopResult(returns, kills, unlinked) ==
    [fn |-> "stop", returns |-> returns, kills |-> kills, unlinked |-> unlinked]

\* stop(pid_file, timeout_seconds): kills is the sequence of os.kill calls
\* with a real signal, unlinked whether the pid file was removed.
stop(record, os_state, timeout_seconds) ==
    IF record = NoRecord THEN StopResult(FALSE, <<>>, FALSE)
    ELSE IF ~os_state.running THEN StopResult(FALSE, <<>>, TRUE)
    ELSE IF ~_is_expected_process(record, os_state)
         THEN StopResult(FALSE, <<>>, TRUE)
    ELSE IF os_state.kill_raises
         THEN StopResult(FALSE, <<[pid |-> record.pid, sig |-> "SIGTERM"]>>, FALSE)
    ELSE LET kills == <<[pid |-> record.pid, sig |-> "SIGTERM"]>>
         IN  IF os_state.exits = "at_once" THEN StopResult(TRUE, kills, TRUE)
             ELSE IF os_state.exits = "later" /\ timeout_seconds = "positive"
                  THEN StopResult(TRUE, kills, TRUE)
             ELSE StopResult(FALSE, kills, FALSE)

DaemonInit ==
    /\ SessInit /\ ChatIdle
    /\ callArgs \in [fn : {"stop"},
                     record : {NoRecord} \cup PidRecords,
                     running : BOOLEAN,
                     start_time : {"None"} \cup StartTimes,
                     cmdline : {"None"} \cup Argvs,
                     kill_raises : BOOLEAN,
                     exits : ExitKinds,
                     timeout_seconds : Timeouts]

CallStop ==
    /\ callArgs.fn = "stop"
    /\ callResult = NoResult
    /\ callResult' = stop(callArgs.record, callArgs, callArgs.timeout_seconds)
    /\ UNCHANGED <<sessVars, chatVars, cancelLog, lineBuf, cbTask, compact, startVars, callArgs>>

DaemonNext == CallStop

DaemonSpec == DaemonInit /\ [][DaemonNext]_vars

(***************************************************************************)
(* AppServerBackend.start_session (app_server_backend.py 428-472) and      *)
(* send_user_message (474-489).  Each action runs the coroutine from one   *)
(* await of a response to the next.  The answers of the server, a          *)
(* thread/started notification and a close() of the session arrive in any  *)
(* order.                                                                  *)
(***************************************************************************)
ThreadIdArgs == {"None", "", "t1"}

\* What the response to thread/start or thread/resume carries: an error, a
\* result that is not a dict, no "thread" dict, or a thread whose id is
\* missing, not a string, empty, or a string.
ThreadResults == {"error", "not_dict", "no_thread", "no_id", "id_int",
                  "id_empty", "id_str"}

\* `if thread_id:` is false for None and for the empty string.
ThreadIdGiven(t) == t \notin {"None", ""}

ThreadRequestStart(t) == "thread/start"

\* The thread request start_session sends for the thread id it was given.
ThreadRequest(t) == IF ThreadIdGiven(t) THEN "thread/resume" ELSE "thread/start"

\* The thread id start_session finds in the response (446-453).
ResponseThreadId(res) == IF res = "id_str" THEN "t1" ELSE "None"

ThreadStartedOf(tid) == [type |-> "ThreadStarted", src |-> "start_session",
                         seq |-> 0, cid |-> NoId, thread_id |-> tid]

\* rpc.request: the write raises on a closed connection, else the method
\* goes on the wire and the coroutine awaits the response at `next`.
StartRequest(method, next) ==
    IF rpc_closed
    THEN startPc' = "raised" /\ startSent' = startSent
    ELSE startPc' = next /\ startSent' = Append(startSent, method)

StartInit ==
    /\ SessInit /\ ChatIdle
    /\ kind = "app"
    /\ callArgs \in [fn : {"start_session"}, thread_id : ThreadIdArgs]

StartInitialize ==
    /\ callArgs.fn = "start_session"
    /\ startPc = "idle"
    /\ StartRequest("initialize", "await_initialize")
    /\ UNCHANGED <<sessVars, chatVars, cancelLog, lineBuf, cbTask, compact, callVars, thread_id, startRes, sendResult>>

\* The future of "initialize" is settled: rejected by an error response or
\* by close(), or resolved; then the thread request.
InitializeSettled(ok) ==
    /\ startPc = "await_initialize"
    /\ rpc_closed => ~ok
    /\ IF ok
         THEN StartRequest(ThreadRequest(callArgs.thread_id), "await_thread")
         ELSE startPc' = "raised" /\ startSent' = startSent
    /\ UNCHANGED <<sessVars, chatVars, cancelLog, lineBuf, cbTask, compact, callVars, thread_id, startRes, sendResult>>

\* The future of the thread request is settled; on a result the thread id
\* is taken from it, ThreadStarted pushed, and the session returned.
ThreadSettled(res) ==
    /\ startPc = "await_thread"
    /\ rpc_closed => res = "error"
    /\ startRes' = res
    /\ IF res = "error"
         THEN /\ startPc' = "raised"
              /\ UNCHANGED <<queue, thread_id>>
         ELSE /\ startPc' = "returned"
              /\ IF ResponseThreadId(res) # "None"
                   THEN /\ queue' = PushEvent(queue, ThreadStartedOf(ResponseThreadId(res)))
                        /\ thread_id' = ResponseThreadId(res)
                   ELSE UNCHANGED <<queue, thread_id>>
    /\ UNCHANGED <<chatVars, cancelLog, lineBuf, cbTask, compact, callVars, startSent, sendResult, kind,
                   next_id, pending, fut, rpc_closed, closed, yielded,
                   consumerPc, callerPc, callerRid, stdin, proc, reaperPc,
                   pumpPc, pumpRid, wire, closeCalls, closeLog, cancelled>>

\* A thread/started notification read by the pump while start_session is
\* under way: _on_notification pushes ThreadStarted, push_event sets the id.
NotifyThreadStarted ==
    /\ startPc \in {"await_initialize", "await_thread"}
    /\ thread_id = "None"
    /\ queue' = PushEvent(queue, [ThreadStartedOf("t2") EXCEPT !.src = "notif"])
    /\ thread_id' = "t2"
    /\ UNCHANGED <<chatVars, cancelLog, lineBuf, cbTask, compact, callVars, startPc, startSent, startRes, sendResult,
                   kind, next_id, pending, fut, rpc_closed, closed, yielded,
                   consumerPc, callerPc, callerRid, stdin, proc, reaperPc,
                   pumpPc, pumpRid, wire, closeCalls, closeLog, cancelled>>

\* send_user_message on the session start_session returned.
SendUserMessage ==
    /\ startPc = "returned"
    /\ sendResult = "-"
    /\ IF thread_id = "None"
         THEN sendResult' = "RuntimeError" /\ startSent' = startSent
         ELSE IF rpc_closed
         THEN sendResult' = "JsonRpcError" /\ startSent' = startSent
         ELSE sendResult' = "awaiting" /\ startSent' = Append(startSent, "turn/start")
    /\ UNCHANGED <<sessVars, chatVars, cancelLog, lineBuf, cbTask, compact, callVars, startPc, thread_id, startRes>>

StartNext ==
    \/ StartInitialize
    \/ \E ok \in BOOLEAN : InitializeSettled(ok)
    \/ \E res \in ThreadResults : ThreadSettled(res)
    \/ NotifyThreadStarted
    \/ SendUserMessage
    \/ SessionClose
    \/ ConsumerGet

StartSpec == StartInit /\ [][StartNext]_vars

(***************************************************************************)
(* Concurrent approval callbacks (callbacks.py 463-541; app.py 206-208     *)
(* registers the handler with block=False, so each button press runs as a  *)
(* task of its own).  A task runs from the read of the row to the write of *)
(* the response without suspending; write_stdin then writes the bytes and  *)
(* awaits drain(), which may suspend; the row is updated afterwards.       *)
(***************************************************************************)
CbTasks == 1..NumCallbacks

\* The pending action of an approval request as the callback handler reads
\* it: type, request_kind, rpc_id, command, proposed_execpolicy_amendment.
ApprovalRequestPending(request_kind, rpc_id, amendment) ==
    [type |-> "approval_request", request_kind |-> request_kind,
     rpc_id |-> rpc_id, command |-> "git status -s",
     proposed_execpolicy_amendment |-> amendment]

\* The turn handler records an approval request of the chat's run: the row
\* goes to 'waiting_approval' with the pending action, the run stays
\* registered in runtime.active_runs.
RecordApprovalRequest(request_kind, rpc_id, amendment) ==
    /\ approvalsSeen = 0
    /\ approvalsSeen' = 1
    /\ active' = set_active_run(1, "waiting_approval",
                     ApprovalRequestPending(request_kind, rpc_id, amendment))
    /\ active_runs' = 1
    /\ UNCHANGED <<auxVars, sessVars, loopVars, backend, policy, trusted,
                   machine, session, lock, msgPc, msgRun, msgMachine,
                   msgSession, msgReply, clear_active_run_on_exit, startCalls,
                   arrived, next_run, msgSeen, runStdin, runCancelled, prompts,
                   cbLog, exits>>

\* write_obj without the test of _closed.
write_obj_unguarded(isClosed, out, obj) ==
    [raised |-> FALSE, out |-> Append(out, obj)]

\* JsonRpcConnection.write_obj: raise on a closed connection, else hand the
\* line to write_stdin.
write_obj(isClosed, out, obj) ==
    IF isClosed THEN [raised |-> TRUE, out |-> out]
    ELSE [raised |-> FALSE, out |-> Append(out, obj)]

\* on_callback_query from the read of the row to the first suspension: the
\* checks, then respond_approval; `suspends` is whether drain() suspends.
CbBegin(t, action, run_id, suspends) ==
    LET pend == active.pending
        decision == Decision(action, pend)
        res == approval_result(Get(pend, "request_kind"), decision,
                   IF decision = "acceptWithExecpolicyAmendment"
                   THEN Get(pend, "proposed_execpolicy_amendment") ELSE "None")
        w == write_obj(rpc_closed, stdin, RespondObj(pend.rpc_id, res.result))
        reply == CallbackOutcome(active, active_runs, run_id, TRUE, TRUE)
    IN
    /\ cbTask[t].pc = "new"
    /\ IF reply # DecisionSent
         THEN /\ cbTask' = [cbTask EXCEPT ![t] =
                               [pc |-> "done", run_id |-> run_id, reply |-> reply]]
              /\ active' = IF reply = "Run handle missing (restart?)."
                           THEN NONE ELSE active
              /\ stdin' = stdin
         ELSE IF w.raised
         THEN /\ cbTask' = [cbTask EXCEPT ![t] =
                               [pc |-> "done", run_id |-> run_id, reply |-> FailedToSend]]
              /\ active' = active
              /\ stdin' = stdin
         ELSE /\ stdin' = w.out
              /\ IF suspends
                   THEN /\ cbTask' = [cbTask EXCEPT ![t] =
                               [pc |-> "draining", run_id |-> run_id, reply |-> "-"]]
                        /\ active' = active
                   ELSE /\ cbTask' = [cbTask EXCEPT ![t] =
                               [pc |-> "done", run_id |-> run_id, reply |-> DecisionSent]]
                        /\ active' = set_active_run(run_id, "running", NoPending)
    /\ UNCHANGED <<cancelLog, callVars, startVars, lineBuf, compact, loopVars, backend, policy,
                   trusted, machine, session, lock, msgPc, msgRun, msgMachine,
                   msgSession, msgReply, clear_active_run_on_exit, startCalls,
                   arrived, active_runs, next_run, msgSeen, runStdin,
                   runCancelled, prompts, approvalsSeen, cbLog, exits,
                   kind, next_id, pending, fut, rpc_closed, closed, queue,
                   yielded, consumerPc, callerPc, callerRid, proc, reaperPc,
                   pumpPc, pumpRid, wire, closeCalls, closeLog, cancelled>>

\* drain() returns, or raises (the pipe broke): the row is set back to
\* 'running' with no pending action, or the failure is reported.
CbDrained(t, ok) ==
    /\ cbTask[t].pc = "draining"
    /\ cbTask' = [cbTask EXCEPT ![t].pc = "done",
                                ![t].reply = IF ok THEN DecisionSent ELSE FailedToSend]
    /\ active' = IF ok THEN set_active_run(cbTask[t].run_id, "running", NoPending)
                 ELSE active
    /\ UNCHANGED <<cancelLog, callVars, startVars, lineBuf, compact, sessVars, loopVars, backend,
                   policy, trusted, machine, session, lock, msgPc, msgRun,
                   msgMachine, msgSession, msgReply, clear_active_run_on_exit,
                   startCalls, arrived, active_runs, next_run, msgSeen,
                   runStdin, runCancelled, prompts, approvalsSeen, cbLog, exits>>

DecideInit == SessInit /\ kind = "app" /\ ChatIdle /\ callArgs = NoCall

DecideNext ==
    \/ \E k \in {"commandExecution", "fileChange"}, r \in ServerRequestIds,
          a \in AmendmentChoices : RecordApprovalRequest(k, r, a)
    \/ \E t \in CbTasks, a \in Actions, r \in 1..2, s \in BOOLEAN :
          CbBegin(t, a, r, s)
    \/ \E t \in CbTasks, ok \in BOOLEAN : CbDrained(t, ok)
    \/ \E c \in Callers : Request(c)
    \/ SessionClose

DecideSpec == DecideInit /\ [][DecideNext]_vars

(***************************************************************************)
(* on_compact (commands.py 577-769) next to on_text_message.  /compact is  *)
(* a blocking handler and updates are dispatched one at a time (app.py     *)
(* 160, 200): while an on_compact call runs no further update is handed to *)
(* a handler, but the on_text_message tasks already started (registered    *)
(* with block=False, app.py 216-218) go on at every await.                 *)
(***************************************************************************)
Compacts == 1..NumCompacts

CompactBusy(c) == compact[c].pc \notin {"new", "done"}
Dispatching == \A c \in Compacts : ~CompactBusy(c)

\* A check of the row that lets every caller through.
CompactBlockedNever(act) == FALSE

\* on_compact 583-586: the 'run in progress' check.
CompactBlocked(act) == act # NONE /\ act.status \in {"running", "waiting_approval"}

\* on_compact up to its first await: the check of the row, then the check
\* of the session; past both it sends "Compacting session..." and calls
\* start_run.
CompactCheck(c) ==
    /\ Dispatching
    /\ compact[c].pc = "new"
    /\ compact' = [compact EXCEPT ![c] =
          IF CompactBlocked(active)
          THEN [pc |-> "done", run_id |-> 0, reply |-> RunInProgress]
          ELSE IF ~session
          THEN [pc |-> "done", run_id |-> 0, reply |-> "No active session to compact."]
          ELSE [pc |-> "starting", run_id |-> 0, reply |-> "-"]]
    /\ UNCHANGED <<cancelLog, callVars, startVars, lineBuf, cbTask, sessVars, chatVars>>

\* start_run returns (640-648 for the summary run, 708-716 for the run of
\* the new session): the handle and the row are recorded.
CompactStartOk(c) ==
    /\ compact[c].pc \in {"starting", "starting_init"}
    /\ backend = "adapter"
    /\ compact' = [compact EXCEPT ![c].pc = IF @ = "starting" THEN "streaming"
                                            ELSE "streaming_init",
                                  ![c].run_id = next_run]
    /\ next_run' = next_run + 1
    /\ active_runs' = next_run
    /\ active' = set_active_run(next_run, "running", NoPending)
    /\ UNCHANGED <<cancelLog, callVars, startVars, lineBuf, cbTask, sessVars, loopVars,
                   backend, policy, trusted, machine, session, lock, msgPc,
                   msgRun, msgMachine, msgSession, msgReply,
                   clear_active_run_on_exit, startCalls, arrived, msgSeen,
                   runStdin, runCancelled, prompts, approvalsSeen, cbLog, exits>>

\* The finally block (762-769): the handle is popped and the row deleted.
CompactFinally(c, reply) ==
    /\ compact' = [compact EXCEPT ![c].pc = "done", ![c].reply = reply]
    /\ active_runs' = 0
    /\ active' = NONE
    /\ UNCHANGED <<cancelLog, callVars, startVars, lineBuf, cbTask, sessVars, loopVars,
                   backend, policy, trusted, machine, session, lock, msgPc,
                   msgRun, msgMachine, msgSession, msgReply,
                   clear_active_run_on_exit, startCalls, arrived, next_run,
                   msgSeen, runStdin, runCancelled, prompts, approvalsSeen,
                   cbLog, exits>>

\* start_run raises: the exception leaves on_compact through the finally.
CompactStartFail(c) ==
    /\ compact[c].pc \in {"starting", "starting_init"}
    /\ CompactFinally(c, "raised")

\* The summary run ends: with an empty summary on_compact gives up, else it
\* announces the new session and calls start_run again.
CompactSummaryEnd(c, empty) ==
    /\ compact[c].pc = "streaming"
    /\ IF empty
         THEN CompactFinally(c, "Compaction failed: empty summary.")
         ELSE /\ compact' = [compact EXCEPT ![c].pc = "starting_init"]
              /\ UNCHANGED <<cancelLog, callVars, startVars, lineBuf, cbTask, sessVars, chatVars>>

\* The run of the new session ends.
CompactInitEnd(c) ==
    /\ compact[c].pc = "streaming_init"
    /\ CompactFinally(c, "Compaction complete.")

CompactInit == ChatSpecInit /\ machine = "local" /\ policy = "untrusted" /\ trusted = {}

CompactNext ==
    \/ \E m \in Msgs : Dispatching /\ MsgArrive(m)
    \/ \E m \in Msgs : Dispatching /\ MsgWait(m)
    \/ \E m \in Msgs : MsgAcquire(m)
    \/ \E m \in Msgs : MsgReturn(m)
    \/ \E m \in Msgs : StartOk(m)
    \/ \E m \in Msgs : StartFail(m)
    \/ \E m \in Msgs : StreamEnd(m)
    \/ \E m \in Msgs : StreamFinally(m)
    \/ \E c \in Compacts : CompactCheck(c)
    \/ \E c \in Compacts : CompactStartOk(c)
    \/ \E c \in Compacts : CompactStartFail(c)
    \/ \E c \in Compacts, e \in BOOLEAN : CompactSummaryEnd(c, e)
    \/ \E c \in Compacts : CompactInitEnd(c)

CompactSpec == CompactInit /\ [][CompactNext]_vars

(***************************************************************************)
(* JsonLineBuffer.feed (app_server_rpc.py 21-42); on_stdout of the CLI     *)
(* runner buffers the same way (cli_runner.py 100-111).  Bytes: a letter,  *)
(* a blank, the newline, and the two bytes of a two-byte UTF-8 character,  *)
(* so that decoding is not the identity.                                   *)
(***************************************************************************)
Bytes == {"a", " ", "nl", "hi", "lo"}

RECURSIVE decode(_)
\* bytes.decode("utf-8", "replace"): "hi" followed by "lo" is one character,
\* a stray "hi" or "lo" becomes the replacement character.
decode(bs) ==
    IF bs = <<>> THEN <<>>
    ELSE IF Head(bs) = "hi" /\ Len(bs) >= 2 /\ bs[2] = "lo"
         THEN <<"e'">> \o decode(Tail(Tail(bs)))
    ELSE IF Head(bs) \in {"hi", "lo"} THEN <<"U+FFFD">> \o decode(Tail(bs))
    ELSE <<Head(bs)>> \o decode(Tail(bs))

RECURSIVE lstrip(_)
lstrip(cs) == IF cs # <<>> /\ Head(cs) = " " THEN lstrip(Tail(cs)) ELSE cs

RECURSIVE rstrip(_)
rstrip(cs) ==
    IF cs # <<>> /\ cs[Len(cs)] = " " THEN rstrip(SubSeq(cs, 1, Len(cs) - 1)) ELSE cs

\* str.strip()
strip(cs) == rstrip(lstrip(cs))

\* bytearray.find(b"\n"): index of the first newline, 0 when there is none.
find_newline(bs) ==
    IF \E i \in 1..Len(bs) : bs[i] = "nl"
    THEN CHOOSE i \in 1..Len(bs) : bs[i] = "nl" /\ \A j \in 1..(i - 1) : bs[j] # "nl"
    ELSE 0

RECURSIVE drain_lines(_, _)
\* The `while True` loop of feed: take complete lines off the buffer.
drain_lines(buf, out) ==
    LET idx == find_newline(buf) IN
    IF idx = 0 THEN [_buf |-> buf, out |-> out]
    ELSE LET line == strip(decode(SubSeq(buf, 1, idx - 1)))
             rest == SubSeq(buf, idx + 1, Len(buf))
         IN  drain_lines(rest, IF line # <<>> THEN Append(out, line) ELSE out)

\* A feed that also hands out what follows the last newline.
feed_flushing(buf, chunk) ==
    LET r == drain_lines(buf \o chunk, <<>>)
        tail == strip(decode(r._buf))
    IN  [_buf |-> <<>>, out |-> IF tail # <<>> THEN Append(r.out, tail) ELSE r.out]

\* JsonLineBuffer.feed(chunk): the buffer left and the lines returned.
feed(buf, chunk) == drain_lines(buf \o chunk, <<>>)

RECURSIVE Streams(_)
Streams(n) ==
    IF n = 0 THEN {<<>>}
    ELSE Streams(n - 1) \cup {Append(st, b) : st \in Streams(n - 1), b \in Bytes}

LineInit ==
    /\ SessInit /\ ChatIdle
    /\ callArgs \in [fn : {"feed"}, stream : Streams(MaxStream)]

\* feed_stdout hands the next chunk of the stream, of any size, to feed.
FeedChunk(n) ==
    LET chunk == SubSeq(callArgs.stream, lineBuf.fed + 1, lineBuf.fed + n)
        r == feed(lineBuf._buf, chunk)
    IN
    /\ callArgs.fn = "feed"
    /\ lineBuf.fed + n <= Len(callArgs.stream)
    /\ lineBuf' = [_buf |-> r._buf, out |-> lineBuf.out \o r.out,
                   fed |-> lineBuf.fed + n, feeds |-> lineBuf.feeds + 1]
    /\ UNCHANGED <<sessVars, chatVars, cancelLog, callVars, startVars, cbTask, compact>>

LineNext == \E n \in 1..MaxStream : FeedChunk(n)

LineSpec == LineInit /\ [][LineNext]_vars

\* ------------------------------------------------------- derived quantities
RECURSIVE CountSentinels(_)
CountSentinels(q) ==
    IF q = <<>> THEN 0
    ELSE (IF Head(q) = Sentinel THEN 1 ELSE 0) + CountSentinels(Tail(q))

\* Sentinels put on the queue so far: those still queued and the one the
\* consumer took when it returned.
SentinelsQueued ==
    CountSentinels(queue) + (IF consumerPc = "returned" THEN 1 ELSE 0)

IsNotif(ev) == ev.src = "notif"

\* The events the notifications of the wire log map to, in wire order.
RECURSIVE WireEvents(_, _)
WireEvents(w, i) ==
    IF i > Len(w) THEN <<>>
    ELSE (IF w[i].k # "notif" THEN <<>>
          ELSE IF kind = "app" THEN NotifEvents(w[i].m, i)
          ELSE CliEvents(w[i].m, i)) \o WireEvents(w, i + 1)

\* ------------------------------------------------------------------ claims

\* C1 (as claimed): once the connection is closed no request future is left
\* pending, the pending map holds no unresolved future, and no caller is left
\* waiting on an unresolved future, whenever the request was issued.
C1_NoPendingAfterClose ==
    rpc_closed =>
        /\ \A r \in DOMAIN fut : fut[r] # "pending"
        /\ \A r \in pending : fut[r] # "pending"
        /\ \A c \in Callers :
              callerPc[c] \in {"writing", "awaiting"} => fut[callerRid[c]] # "pending"

\* C6 (as claimed): every queued ExecApprovalRequest carries as correlation id
\* the very id of the server request line it was made from.
C6_CorrelationIdIsWireId ==
    \A i \in DOMAIN (yielded \o queue) :
        LET ev == (yielded \o queue)[i] IN
        ev.type = "ExecApprovalRequest" => ev.cid = wire[ev.seq].id

\* C7: however many times close() is called, and by whom, the queue gets
\* exactly one sentinel: one once the session is closed, none before.
C7_OneSentinel ==
    /\ closed => SentinelsQueued = 1
    /\ ~closed => SentinelsQueued = 0

C7_Witness == closeLog.n >= 2 /\ closed /\ SentinelsQueued = 1

\* C8: a closed session has its connection closed and one sentinel queued;
\* once closed, a later close (the path that comes second) changes none of
\* that; and once the subprocess has exited the session gets closed.
C8_ClosedState ==
    closed => /\ kind = "app" => rpc_closed
              /\ SentinelsQueued = 1

C8_DualTermination ==
    /\ [](C8_ClosedState)
    /\ [][closed => /\ closed'
                    /\ rpc_closed' = rpc_closed
                    /\ SentinelsQueued' = SentinelsQueued]_vars
    /\ (proc # "running") ~> closed

C8_Witness ==
    /\ kind = "app"
    /\ closeLog.first = "turn"
    /\ reaperPc = "done"
    /\ closeLog.n >= 2
    /\ C8_ClosedState /\ closed

\* C9: the events made from notifications stand in the queue, and reach the
\* consumer, in the order of the notifications on the wire, each once.
C9_OrderPreserved ==
    SelectSeq(yielded \o queue, IsNotif) = WireEvents(wire, 1)

C9_Witness ==
    /\ Len(SelectSeq(yielded, IsNotif)) >= 2
    /\ yielded[1].seq < yielded[2].seq

\* C10 (as claimed): after cancel() the connection gets closed and a sentinel
\* gets queued, so that the consumer of events() returns.
C10_CancelCloses ==
    cancelled ~> (closed /\ SentinelsQueued = 1 /\ (kind = "app" => rpc_closed))

\* ------------------------------------------------------------- chat claims
Last(q) == q[Len(q)]

Entered(m) == msgPc[m] \notin {"new", "waiting_lock"}

RECURSIVE SumLen(_, _)
SumLen(f, S) ==
    IF S = {} THEN 0
    ELSE LET r == CHOOSE x \in S : TRUE IN Len(f[r]) + SumLen(f, S \ {r})

\* Decisions written to the stdin of any run.
DecisionsWritten == SumLen(runStdin, Runs)

\* Callbacks that ended with a decision sent.
DecisionsSent == Cardinality({i \in DOMAIN cbLog : cbLog[i].reply = DecisionSent})

\* C2 (as claimed): with text messages alone (no /exit), a message that
\* arrives while a turn is active or while another message is inside its
\* start-up section is answered 'Run in progress' and never invokes
\* start_run.
C2_SecondNeverStarts ==
    exits = 0 =>
        \A m \in Msgs :
            arrived[m] \in {"startup", "active"} =>
                /\ startCalls[m] = 0
                /\ Entered(m) => msgReply[m] = RunInProgress

\* C2 (amended): start-up sections exclude each other; a handler whose check
\* of the active row finds status 'running' or 'waiting_approval' answers
\* 'Run in progress' and does not invoke start_run; and start_run is invoked
\* on entry only under the lock and with no active turn recorded.
C2_StartupExclusive ==
    \A m \in Msgs :
        msgPc[m] \in {"starting", "starting_fb", "replying"} =>
            /\ lock = m
            /\ \A o \in Msgs \ {m} : msgPc[o] \notin {"starting", "starting_fb", "replying"}

C2_CheckStep ==
    \A m \in Msgs :
        (~Entered(m) /\ Entered(m)') =>
            IF active.status \in {"running", "waiting_approval"}
            THEN /\ msgReply'[m] = RunInProgress
                 /\ msgPc'[m] = "replying"
                 /\ startCalls'[m] = startCalls[m]
            ELSE /\ lock' = m
                 /\ msgReply'[m] # RunInProgress

C2_Serialized == [](C2_StartupExclusive) /\ [][C2_CheckStep]_vars

C2_Witness ==
    \E m \in Msgs, o \in Msgs :
        /\ arrived[m] = "startup"
        /\ msgReply[m] = RunInProgress
        /\ startCalls[m] = 0
        /\ startCalls[o] = 1
        /\ active.status = "waiting_approval"

\* C3: a decision addressed to a run id other than that of the active row,
\* or arriving with no active row, is answered 'Stale approval', writes no
\* decision to any run and leaves row and run handle as they were.
C3_StaleStep ==
    (Len(cbLog') = Len(cbLog) + 1
        /\ (active = NONE \/ active.run_id # Last(cbLog').run_id))
    => /\ Last(cbLog').reply = StaleApproval
       /\ active' = active
       /\ active_runs' = active_runs
       /\ runStdin' = runStdin

C3_StaleRejected == [][C3_StaleStep]_vars

C3_Witness ==
    /\ cbLog # <<>>
    /\ cbLog[1].reply = StaleApproval
    /\ cbLog[1].before.status = "waiting_approval"
    /\ cbLog[1].before.run_id # cbLog[1].run_id
    /\ active = cbLog[1].before

\* C4: under 'untrusted' every ExecApprovalRequest consumed has produced one
\* approval prompt, and no more decisions are written to a run than the
\* user has sent, whatever prefixes are trusted.
C4_UntrustedAlwaysAsks ==
    policy = "untrusted" =>
        /\ prompts.exec_approval = approvalsSeen
        /\ DecisionsWritten <= DecisionsSent

C4_Witness ==
    /\ policy = "untrusted"
    /\ approvalsSeen >= 1
    /\ active.status = "waiting_approval"
    /\ Get(active.pending, "kind") = "exec_approval"
    /\ Get(active.pending, "prefix") \in trusted
    /\ \E m \in Msgs : msgPc[m] = "streaming" /\ msgSession[m]

\* C5 (as claimed): a decision addressed to the run whose approval request
\* with correlation id c is pending is applied: one response with id c and
\* the decision is written and the row returns to 'running' with no pending
\* action; or sending fails and the row stays as it was.
C5_DecisionStep ==
    (Len(cbLog') = Len(cbLog) + 1
        /\ active # NONE
        /\ active.run_id = Last(cbLog').run_id
        /\ Get(active.pending, "kind") = "exec_approval")
    => \/ /\ active_runs # 0
          /\ runStdin' = [runStdin EXCEPT ![active_runs] =
                            Append(@, ApprovalResponse(Get(active.pending, "call_id"),
                                                       Last(cbLog').decision))]
          /\ active' = set_active_run(active.run_id, "running", NoPending)
       \/ /\ Last(cbLog').reply = FailedToSend
          /\ active' = active
          /\ runStdin' = runStdin

C5_DecisionApplied == [][C5_DecisionStep]_vars

\* ------------------------------------------------------------------ C11
\* C11: cancel() attempts terminate, then kill, then close-stdin on the
\* handle, each of them whatever the earlier ones did, and returns normally:
\* no exception of a handle call reaches the caller.
C11_CancelBestEffort ==
    cancelled =>
        /\ cancelLog.outcome = "returned"
        /\ Len(cancelLog.attempted) = Len(CancelSteps)
        /\ \A i \in 1..Len(CancelSteps) : cancelLog.attempted[i].step = CancelSteps[i]

\* cancel() ran with terminate and kill both raising.
C11_Witness ==
    /\ cancelled
    /\ Len(cancelLog.attempted) = 3
    /\ cancelLog.attempted[1].raised
    /\ cancelLog.attempted[2].raised
    /\ cancelLog.outcome = "returned"

\* ------------------------------------------------------------------ C12
\* C12: for one user message start_run is invoked at most twice, the second
\* time only as the one failover from an ssh machine to the local fallback,
\* whether the fault showed at setup or in the stream; no message gets a
\* second failover.
C12_OneFailover ==
    \A m \in Msgs :
        /\ startCalls[m] <= 2
        /\ Len(startLog[m]) = startCalls[m]
        /\ startCalls[m] = 2 =>
              /\ startLog[m][1].target = "ssh"
              /\ startLog[m][2].target = "local"
        /\ ssh_fallback_attempted[m] => msgPc[m] # "cancelling" \/ startCalls[m] = 1

\* A handler streams its replacement run after a failover made in the stream.
C12_Witness ==
    \E m \in Msgs :
        /\ startCalls[m] = 2
        /\ ssh_fallback_attempted[m]
        /\ msgPc[m] = "streaming"
        /\ msgMachine[m] = "local"

\* ------------------------------------------------------------------ C13
\* The steps of a failover made in the stream, and the steps that take an
\* event, each with what the claim says about it.
C13_FailoverStep ==
    \A m \in Msgs :
        /\ (msgPc[m] = "cancelling" /\ msgPc'[m] = "failover") =>
              /\ runCancelled[msgRun[m]]
              /\ startCalls'[m] = startCalls[m] + 1
              /\ Last(startLog'[m]) = StartArgs("local", FALSE)
        /\ (msgPc[m] = "failover" /\ msgPc'[m] = "streaming") =>
              /\ msgRun'[m] # msgRun[m]
              /\ active' = set_active_run(msgRun'[m], "running", NoPending)
              /\ active_runs' = msgRun'[m]
              /\ events_iter'[m] = EventsOf(msgRun'[m])
        /\ msgSeen'[m] # msgSeen[m] =>
              /\ events_iter[m].run = msgRun[m]
              /\ runCancelled[msgRun[m]] = FALSE \/ exits > 0

\* C13: in a mid-stream failover the stalled run's cancel() is requested
\* before start_run is called for the replacement; that call targets the
\* local fallback with no thread to resume; the active-run row and handle
\* become the replacement's; and every event taken afterwards comes from the
\* replacement run's iterator.
C13_FailoverOrder == [][C13_FailoverStep]_vars

\* A mid-stream failover is complete: the handler is back in its stream loop
\* on the replacement run, the row names that run, the stalled run is cancelled.
C13_Witness ==
    \E m \in Msgs :
        /\ ssh_fallback_attempted[m]
        /\ startCalls[m] = 2
        /\ msgPc[m] = "streaming"
        /\ events_iter[m].run = msgRun[m]
        /\ active.run_id = msgRun[m]
        /\ runCancelled[msgRun[m]] = FALSE
        /\ \E r \in Runs : r # msgRun[m] /\ runCancelled[r]

\* ------------------------------------------------------------------ C14
\* C14: after a timeout whose liveness probe succeeds the handler keeps
\* waiting on the same run: while it is in its stream loop the iterator it
\* holds is still able to deliver that run's events, up to the sentinel.
C14_BenignStallKeepsWaiting ==
    \A m \in Msgs :
        msgPc[m] = "streaming" =>
            /\ events_iter[m].run = msgRun[m]
            /\ ~events_iter[m].done

\* ------------------------------------------------------------------ C15
\* The server request lines fed so far whose method is no approval kind.
UnknownRequests == {i \in DOMAIN wire : wire[i].k = "req" /\ wire[i].m \notin ApprovalMethods}

C15_DeclineStep ==
    (Len(wire') = Len(wire) + 1 /\ Len(wire') \in UnknownRequests') =>
        /\ queue' = queue
        /\ ~rpc_closed => /\ stdin' = Append(stdin, ResponseObj(Last(wire').id, "decline"))
                          /\ pumpPc' = "responding"
        /\ rpc_closed => stdin' = stdin

RECURSIVE Join(_)
Join(tokens) == IF tokens = <<>> THEN <<>> ELSE Head(tokens) \o Join(Tail(tokens))

\* The first n shell tokens of a command (all of them when there are fewer),
\* blank-separated words standing in for tokens when shlex rejects the line.
FirstTokens(command, n) ==
    LET r == shlex_split(command)
        t == IF r.raised THEN whitespace_split(command) ELSE r.tokens
        k == IF n < Len(t) THEN n ELSE Len(t)
    IN  SubSeq(t, 1, k)

\* C16: should_prompt_for_approval gives needs_prompt = FALSE under 'never',
\* TRUE under 'untrusted' and 'on-failure' whatever is trusted, under
\* 'on-request' TRUE exactly when the prefix is not trusted, TRUE under any
\* other policy; the second component is always the canonical prefix.
C16_PromptTable ==
    callResult.fn = "should_prompt_for_approval" =>
        LET a == callArgs
            canonical == Join(FirstTokens(a.command, a.prefix_tokens))
            needs == CASE a.approval_policy = "never" -> FALSE
                       [] a.approval_policy = "on-request" ->
                              canonical \notin a.trusted_prefixes
                       [] OTHER -> TRUE
        IN  callResult.value = <<needs, canonical>>

\* Under 'on-request' a trusted prefix skipped the prompt, and the prefix of
\* the two-token command was returned.
C16_Witness ==
    /\ callResult.fn = "should_prompt_for_approval"
    /\ callArgs.approval_policy = "on-request"
    /\ callArgs.command = GitStatus
    /\ callArgs.prefix_tokens = 2
    /\ callResult.value = <<FALSE, <<"git", "status">>>>

\* ------------------------------------------------------------------ C17
\* C17: command_prefix returns the first n POSIX shell tokens joined by
\* blanks, all of them when there are fewer than n; a line shlex rejects is
\* cut at its blanks instead, and a result is returned for every input.
C17_CommandPrefix ==
    callResult.fn = "command_prefix" =>
        callResult.value = Join(FirstTokens(callArgs.command, callArgs.prefix_tokens))

\* The prefix of a line with an unterminated quote: its first two words,
\* the quote character still on the second.
C17_Witness ==
    /\ callResult.fn = "command_prefix"
    /\ callArgs.command = OpenQuote
    /\ callArgs.prefix_tokens = 2
    /\ callResult.value = <<"git", "\"status">>

\* ------------------------------------------------------------------ C18
\* C18: every non-empty stdout line that is not a JSON object, invalid JSON
\* or valid JSON of another type, has become a LogLine event of the session.
C18_EveryNonObjectLogged ==
    \A i \in DOMAIN wire :
        wire[i].k = "log" =>
            \E j \in DOMAIN (yielded \o queue) :
                /\ (yielded \o queue)[j].type = "LogLine"
                /\ (yielded \o queue)[j].seq = i

\* ------------------------------------------------------------------ C19
\* C19: parse_event_obj returns for every decoded JSON object, whatever the
\* types of its fields, and returns no event for a type it does not know.
C19_ParseNeverRaises ==
    callResult.fn = "parse_event_obj" =>
        /\ callResult.out.raised = "-"
        /\ callArgs.type = "custom.event" => callResult.out.events = <<>>

\* ------------------------------------------------------------------ C20
\* The handler of each class.
HandlerOf(c) ==
    CASE c = "response" -> "response"
      [] c = "request" -> "on_server_request"
      [] c = "notification" -> "on_notification"

Issued == {c \in Callers : callerPc[c] # "idle"}

\* request() hands out next_id and moves it up: the ids held are all
\* different and all below next_id.
C21_IdsFresh ==
    /\ \A c \in Issued : callerRid[c] \in 1..(next_id - 1)
    /\ \A c, d \in Issued : c # d => callerRid[c] # callerRid[d]

\* The response line a step feeds, if it feeds one.
FedResponse == Len(wire') = Len(wire) + 1 /\ wire'[Len(wire')].k = "resp"

\* A response touches no future but that of its id, no queue, no stdin; it
\* leaves a future alone that is not pending in the map.
C21_OnlyItsOwn ==
    FedResponse =>
        LET k == wire'[Len(wire')].id.v IN
        /\ \A r \in DOMAIN fut : r # k => fut'[r] = fut[r]
        /\ ~(k \in pending /\ fut[k] = "pending") => fut' = fut
        /\ k \notin pending'
        /\ pending' \cup {k} = pending \cup {k}
        /\ UNCHANGED <<queue, stdin, next_id, rpc_closed, closed>>

\* C21 (as claimed): ids are handed out increasing and never reused; a
\* response with id k settles the pending request k alone, rejecting it
\* whenever the 'error' key is present and resolving it otherwise; a response
\* that matches no pending request changes nothing.
C21_RejectedWhenErrorPresent ==
    [][ /\ next_id' >= next_id
        /\ C21_IdsFresh'
        /\ C21_OnlyItsOwn
        /\ FedResponse =>
              LET l == wire'[Len(wire')] IN
              (l.id.v \in pending /\ fut[l.id.v] = "pending") =>
                  fut'[l.id.v] = IF l.m # "absent" THEN "error" ELSE "result" ]_vars

\* C21 (amended): as above, but the request is rejected only when 'error' is
\* present and not null; with 'error': null it is resolved with 'result'.
C21_RejectedWhenErrorNotNull ==
    [][ /\ next_id' >= next_id
        /\ C21_IdsFresh'
        /\ C21_OnlyItsOwn
        /\ FedResponse =>
              LET l == wire'[Len(wire')] IN
              (l.id.v \in pending /\ fut[l.id.v] = "pending") =>
                  fut'[l.id.v] = IF l.m = "object" THEN "error" ELSE "result" ]_vars

\* Two requests were issued; the second was rejected by an error response
\* while the first is still pending, and a later response for the settled id
\* was fed too.
C21_Witness ==
    /\ next_id = 3
    /\ fut[1] = "pending" /\ 1 \in pending
    /\ fut[2] = "error" /\ 2 \notin pending
    /\ \E i, j \in 1..Len(wire) :
          /\ i < j
          /\ wire[i] = Line("resp", "object", IntId(2))
          /\ wire[j].k = "resp" /\ wire[j].id = IntId(2)

\* ------------------------------------------------------------------ C22
\* The result the claim gives for a call.
ClaimedResult ==
    IF callArgs.request_kind = "commandExecution"
       /\ callArgs.decision = "acceptWithExecpolicyAmendment"
    THEN {Leaf(<<"decision", "acceptWithExecpolicyAmendment", "execpolicy_amendment">>,
               callArgs.execpolicy_amendment)}
    ELSE {Leaf(<<"decision">>, callArgs.decision)}

\* The call is one the claim gives a result for: a known request kind, and
\* an amendment list where the decision needs one.
ClaimedCall ==
    /\ callArgs.request_kind \in {"commandExecution", "fileChange"}
    /\ (callArgs.request_kind = "commandExecution"
        /\ callArgs.decision = "acceptWithExecpolicyAmendment")
          => callArgs.execpolicy_amendment = "list"

RespondApprovalReturns == callResult = NoResult /\ callResult'.fn = "respond_approval"

\* C22 (as claimed): respond_approval writes exactly one object
\* {id: rpc_id, result: R}, with the amendment nested under the decision key
\* for acceptWithExecpolicyAmendment on a command execution and
\* R = {decision: <string>} otherwise; an unknown request kind raises and
\* writes nothing.
C22_WritesOneResponse ==
    [][RespondApprovalReturns =>
          /\ ClaimedCall =>
                stdin' = Append(stdin, RespondObj(callArgs.rpc_id, ClaimedResult))
          /\ callArgs.request_kind \notin {"commandExecution", "fileChange"} =>
                callResult'.raised # "None" /\ stdin' = stdin ]_vars

\* C22 (amended): the same on an open connection; on a closed connection
\* respond_approval raises and writes nothing, whatever the request kind.
C22_WritesOneResponseWhenOpen ==
    [][RespondApprovalReturns =>
          /\ (ClaimedCall /\ ~rpc_closed) =>
                /\ stdin' = Append(stdin, RespondObj(callArgs.rpc_id, ClaimedResult))
                /\ callResult'.raised = "None"
          /\ rpc_closed => callResult'.raised # "None" /\ stdin' = stdin
          /\ callArgs.request_kind \notin {"commandExecution", "fileChange"} =>
                callResult'.raised = "ValueError" /\ stdin' = stdin ]_vars

\* An amendment was accepted for a command execution on an open connection.
C22_Witness ==
    /\ callResult.fn = "respond_approval"
    /\ callArgs.request_kind = "commandExecution"
    /\ callArgs.decision = "acceptWithExecpolicyAmendment"
    /\ callArgs.execpolicy_amendment = "list"
    /\ ~rpc_closed
    /\ Len(stdin) = 1

\* ------------------------------------------------------------------ C23
\* C23: an approval event made from an object inside an envelope carries
\* the envelope's id, whichever form the inner object has.
C23_ApprovalCarriesOuterId ==
    (callResult.fn = "parse_event_obj" /\ callArgs.envelope = "str") =>
        \A i \in 1..Len(callResult.out.events) :
            callResult.out.events[i].type = "ExecApprovalRequest" =>
                callResult.out.events[i].outer_id = "str"

\* ------------------------------------------------------------------ C24
\* A function call of exec_command was parsed.
ParsedFunctionCall ==
    callResult.fn = "parse_event_obj" /\ callArgs.type = "function_call"

Escalation == callArgs.sandbox_permissions = "require_escalated"

\* C24 (as claimed): a function call of exec_command gives exactly one
\* event: an ExecApprovalRequest with the call_id when sandbox_permissions
\* asks for an escalation, a ToolStarted otherwise.
C24_OneEventPerFunctionCall ==
    ParsedFunctionCall =>
        LET events == callResult.out.events IN
        /\ Len(events) = 1
        /\ events[1].type = IF Escalation THEN "ExecApprovalRequest" ELSE "ToolStarted"
        /\ (Escalation /\ callArgs.call_id = "str") => events[1].call_id = "str"

\* The arguments hold a command: they are an object, or a string that
\* decodes to one, whose cmd is a non-empty string or list.
UsableCommand ==
    callArgs.arguments \in {"object", "json_string"} /\ HasCommand(callArgs.cmd)

\* C24 (amended): the above holds for a function call whose arguments hold a
\* command; a call without one gives no event. The call_id is carried when
\* it is a string, and is None otherwise.
C24_OneEventPerUsableFunctionCall ==
    ParsedFunctionCall =>
        LET events == callResult.out.events IN
        /\ callResult.out.raised = "-"
        /\ ~UsableCommand => events = <<>>
        /\ UsableCommand =>
              /\ Len(events) = 1
              /\ events[1].type = IF Escalation THEN "ExecApprovalRequest"
                                  ELSE "ToolStarted"
              /\ Escalation =>
                    events[1].call_id = IF callArgs.call_id = "str" THEN "str"
                                        ELSE "None"

\* A call with a command that asks for an escalation became an approval
\* request with its call_id.
C24_Witness ==
    /\ ParsedFunctionCall
    /\ UsableCommand
    /\ Escalation
    /\ callArgs.call_id = "str"
    /\ callResult.out.events = <<ExecApprovalRequest("str", outer_id_of(callArgs))>>

\* ------------------------------------------------------------------ C25
\* C25: the context remaining that a token-usage event leaves in the store is
\* max(window - T, 0), never negative, where T is the total of the last
\* usage whenever a last usage is reported, and the cumulative total only
\* when none is.
C25_RemainingFromLastUsage ==
    (callResult.fn = "update_token_telemetry"
       /\ callResult.fields.last_context_remaining.present) =>
        LET T == IF callArgs.last.present THEN callArgs.last.v ELSE callArgs.total.v
        IN  /\ callResult.fields.last_context_remaining.v >= 0
            /\ callResult.fields.last_context_remaining.v =
                   Max(callArgs.window.v - T, 0)

\* ------------------------------------------------------------------ C26
\* The handler of m gives up starting in this step.
GivesUpStart(m) == InStartup(m) /\ msgPc'[m] = "replying"

\* C26: a start that fails with no failover left (a local machine, an ssh
\* machine without fallback, or a fallback whose start fails too) is
\* answered with "Failed to start run" and records nothing: the handler has
\* no run, the active-run row and the run handle are as they were, and any
\* row there is belongs to a run that did start; the lock is given back
\* with the answer; a message is rejected as "run in progress" only while a
\* row of a started run is there, so never because of a start that failed.
C26_FailedStartStep ==
    \A m \in Msgs :
        /\ GivesUpStart(m) =>
              /\ msgReply'[m] = FailedToStart
              /\ msgRun'[m] = 0
              /\ next_run' = next_run
              /\ active' = active /\ active_runs' = active_runs
              /\ active' # NONE => active'.run_id \in 1..(next_run - 1)
              /\ active_runs' \in 0..(next_run - 1)
              /\ \/ msgMachine[m] # "ssh"
                 \/ msgPc[m] = "starting_fb"
        /\ (msgPc[m] = "replying" /\ msgPc'[m] = "done") => lock' = 0
        /\ (msgReply[m] # RunInProgress /\ msgReply'[m] = RunInProgress) =>
              /\ active.run_id \in 1..(next_run - 1)
              /\ active.status \in {"running", "waiting_approval"}

PromptsForApproval(m) ==
    /\ msgPc[m] = "streaming"
    /\ approvalsSeen' = approvalsSeen + 1
    /\ prompts'.exec_approval = prompts.exec_approval + 1

\* C27: an ExecApprovalRequest that needs a prompt leaves the row of the run
\* at 'waiting_approval' with a pending action of type 'approval_request',
\* request_kind 'commandExecution' and the command asked for; the run is not
\* cancelled and the handler keeps streaming.
C27_PromptStep ==
    \A m \in Msgs :
        PromptsForApproval(m) =>
            /\ active'.run_id = msgRun[m]
            /\ active'.status = "waiting_approval"
            /\ Get(active'.pending, "type") = "approval_request"
            /\ Get(active'.pending, "request_kind") = "commandExecution"
            /\ Get(active'.pending, "command") \in Commands
            /\ runCancelled' = runCancelled
            /\ msgPc'[m] = "streaming"

C27_PendingIsApprovalRequest == [][C27_PromptStep]_vars

\* ------------------------------------------------------------------ C28
\* The handler of m was sent a ToolStarted in this step; the commands of the
\* model, `git status -s` in two spellings, only read.
SeesToolStarted(m) ==
    /\ msgPc[m] = "streaming"
    /\ msgSeen'[m] = msgSeen[m] + 1
    /\ approvalsSeen' = approvalsSeen
    /\ \/ prompts'.proxy_exec = prompts.proxy_exec + 1
       \/ UNCHANGED <<active, prompts, msgPc, runCancelled, session>>

\* C28: under 'untrusted' a ToolStarted for a read-only command creates no
\* pending approval and does not cancel the run; the handler keeps streaming.
C28_ToolStartedStep ==
    \A m \in Msgs :
        (SeesToolStarted(m) /\ policy = "untrusted") =>
            /\ active' = active
            /\ prompts' = prompts
            /\ runCancelled' = runCancelled
            /\ msgPc'[m] = "streaming"

C28_ReadOnlyToolNotGated == [][C28_ToolStartedStep]_vars

\* ------------------------------------------------------------------ C29
\* C29: the conversation has one active-run row at most (chat_id is the
\* primary key), so one pending approval at most, and the pending approval
\* is that of the conversation's active run: whenever the chat has a run in
\* runtime.active_runs, the run id stored with the pending action is the id
\* of that run.
C29_PendingOfActiveRun ==
    (active.pending # NoPending /\ active_runs # 0) =>
        active.run_id = active_runs

\* C30: stop() sends a signal to a running process only when the identity
\* of the process matches the pid record (nothing that could be read
\* contradicts the record and something that could be read agrees with it);
\* when a running process mismatches the record, or nothing about it can be
\* read, stop() returns False and sends no signal.
StopCalled == callArgs.fn = "stop" /\ callResult # NoResult

IdentityMismatch ==
    \/ /\ callArgs.record.start_time # "None"
       /\ callArgs.start_time # "None"
       /\ callArgs.start_time # callArgs.record.start_time
    \/ /\ callArgs.cmdline # "None"
       /\ IF callArgs.record.argv = "empty"
          THEN callArgs.cmdline # "tgcodex_run"
          ELSE callArgs.cmdline # callArgs.record.argv

NothingReadable ==
    /\ callArgs.record.start_time = "None" \/ callArgs.start_time = "None"
    /\ callArgs.cmdline = "None"

C30_SignalsOnlyExpectedProcess ==
    StopCalled =>
        /\ callResult.kills # <<>> =>
              /\ callArgs.record # NoRecord /\ callArgs.running
              /\ ~IdentityMismatch /\ ~NothingReadable
              /\ \A i \in 1..Len(callResult.kills) :
                    callResult.kills[i].pid = callArgs.record.pid
        /\ (callArgs.record # NoRecord /\ callArgs.running
              /\ (IdentityMismatch \/ NothingReadable)) =>
              callResult.returns = FALSE /\ callResult.kills = <<>>

C30_Witness ==
    /\ StopCalled
    /\ callArgs.record # NoRecord /\ callArgs.running
    /\ NothingReadable
    /\ callResult.returns = FALSE /\ callResult.kills = <<>>

\* C31: stop() sends SIGTERM first; when the process is still running once
\* the timeout has elapsed it also sends SIGKILL; when the process is seen
\* gone it removes the pid file and returns True.
StillRunningAfterTimeout ==
    \/ callArgs.exits = "never"
    \/ callArgs.exits = "later" /\ callArgs.timeout_seconds = "zero"

C31_EscalatesToSigkill ==
    (StopCalled /\ callResult.kills # <<>> /\ ~callArgs.kill_raises) =>
        /\ callResult.kills[1].sig = "SIGTERM"
        /\ StillRunningAfterTimeout =>
              \E i \in 1..Len(callResult.kills) :
                  callResult.kills[i].sig = "SIGKILL"
        /\ ~StillRunningAfterTimeout =>
              callResult.returns = TRUE /\ callResult.unlinked

\* The events the consumer of events() has been handed or will be handed:
\* those yielded, and those queued ahead of the first sentinel while the
\* consumer is still iterating.
RECURSIVE UpToSentinel(_)
UpToSentinel(q) ==
    IF q = <<>> \/ Head(q) = Sentinel THEN <<>>
    ELSE <<Head(q)>> \o UpToSentinel(Tail(q))

Deliverable ==
    yielded \o (IF consumerPc = "waiting" THEN UpToSentinel(queue) ELSE <<>>)

ReaperError == Event("ErrorEvent", "reaper", 0, NoId)

InSeq(x, q) == \E i \in 1..Len(q) : q[i] = x

\* C32 as stated: once the reaper has run the session is closed; after a
\* nonzero exit code or a failed wait the consumer of events() gets the
\* reaper's ErrorEvent before its stream ends; after a zero exit code no
\* ErrorEvent was pushed.
C32_ReaperErrorObserved ==
    reaperPc = "done" =>
        /\ closed
        /\ proc \in {"exitN", "waiterr"} => InSeq(ReaperError, Deliverable)
        /\ proc = "exit0" =>
              ~InSeq(ReaperError, queue) /\ ~InSeq(ReaperError, yielded)

\* C32 amended: the reaper pushes the ErrorEvent and closes in all three
\* cases as stated, but the consumer gets the ErrorEvent only when the
\* reaper's close() was the first one; after an earlier close() (turn
\* completed, or another owner) the ErrorEvent is queued behind the sentinel.
C32_ReaperErrorObservedWhenOpen ==
    reaperPc = "done" =>
        /\ closed
        /\ proc \in {"exitN", "waiterr"} =>
              /\ InSeq(ReaperError, queue) \/ InSeq(ReaperError, yielded)
              /\ closeLog.first = "reaper" => InSeq(ReaperError, Deliverable)
              /\ closeLog.first # "reaper" => ~InSeq(ReaperError, Deliverable)
        /\ proc = "exit0" =>
              ~InSeq(ReaperError, queue) /\ ~InSeq(ReaperError, yielded)

C32_Witness ==
    /\ reaperPc = "done" /\ proc = "exitN"
    /\ closeLog.first = "reaper"
    /\ consumerPc = "returned"
    /\ InSeq(ReaperError, yielded)

\* C33: start_session writes 'initialize' first and writes no thread request
\* before that request was answered; it then writes exactly one thread
\* request, thread/resume when a thread id was supplied and thread/start
\* otherwise; when the response carries a thread id the session returned has
\* that id and a ThreadStarted with it was queued; send_user_message on a
\* session without a thread id raises and writes nothing.
ThreadRequests ==
    {i \in 1..Len(startSent) : startSent[i] \in {"thread/resume", "thread/start"}}

C33_HandshakeState ==
    /\ startSent # <<>> => startSent[1] = "initialize"
    /\ ThreadRequests # {} => startPc \in {"await_thread", "returned", "raised"}
    /\ ThreadRequests \subseteq {2}
    /\ startPc \in {"await_thread", "returned"} =>
          /\ ThreadRequests = {2}
          /\ startSent[2] = (IF callArgs.thread_id \in {"None", ""}
                             THEN "thread/start" ELSE "thread/resume")
    /\ (startPc = "returned" /\ startRes = "id_str") =>
          /\ thread_id = "t1"
          /\ \/ InSeq(ThreadStartedOf("t1"), queue)
             \/ InSeq(ThreadStartedOf("t1"), yielded)

C33_StartSession ==
    [][ /\ C33_HandshakeState'
        /\ (sendResult = "-" /\ sendResult' # "-" /\ thread_id = "None") =>
              sendResult' = "RuntimeError" /\ startSent' = startSent ]_vars

C33_Witness ==
    /\ startPc = "returned" /\ startRes = "id_str"
    /\ callArgs.thread_id = "t1"
    /\ startSent = <<"initialize", "thread/resume", "turn/start">>

NonSentinel(q) == SelectSeq(q, LAMBDA e : e # Sentinel)

\* C34 as stated: every event in the queue is ahead of the sentinel and will
\* be delivered; nothing is enqueued behind the sentinel.
C34_NothingBehindSentinel ==
    Deliverable = yielded \o NonSentinel(queue)

\* C34 amended: every event pushed by a step that starts with the session
\* open is enqueued ahead of the sentinel and is delivered; push_event does
\* not look at the closed flag, so what is pushed once close() has queued the
\* sentinel adds nothing to what the consumer is handed.
C34_OpenPushesDelivered ==
    [][ /\ ~closed => Deliverable' = yielded' \o NonSentinel(queue')
        /\ closed => Deliverable' = Deliverable ]_vars

C34_Witness ==
    /\ consumerPc = "returned"
    /\ Len(yielded) >= 1
    /\ InSeq(ReaperError, queue)

\* C35: the end-of-stream cleanup of a handler removes the entry of
\* runtime.active_runs and the active-run row only when they belong to the
\* handler's own run; the entry and the row of a newer run are left intact.
C35_CleanupStep ==
    \A m \in Msgs :
        (msgPc[m] = "finally" /\ msgPc'[m] = "done") =>
            /\ (active_runs # 0 /\ active_runs # msgRun[m]) =>
                  active_runs' = active_runs
            /\ (active # NONE /\ active.run_id # msgRun[m]) =>
                  active' = active

C35_CleanupOwnRunOnly == [][C35_CleanupStep]_vars

\* C36: for one pending approval at most one decision response is written to
\* the agent, also when two callbacks for the same run id are handled
\* concurrently: the second finds no pending approval and is rejected.
Responses == {i \in 1..Len(stdin) : stdin[i].what = "response"}

MsgInFlight(m) == msgPc[m] \in {"starting", "starting_fb", "streaming"}

C37_OneTurnInFlight ==
    /\ \A c, d \in Compacts : (CompactBusy(c) /\ CompactBusy(d)) => c = d
    /\ \A c \in Compacts, m \in Msgs : ~(CompactBusy(c) /\ MsgInFlight(m))

\* C38: whenever the row of the conversation has status 'waiting_approval',
\* a decision callback addressed to the run id of the row is accepted: it is
\* not rejected as stale, as a pending-action mismatch or for a missing run
\* handle, so the row does not stay 'waiting_approval' after the decision.
C38_Rejections ==
    {StaleApproval, "Pending action mismatch.", "Run handle missing (restart?)."}

C38_DecisionAccepted ==
    \A i \in 1..Len(cbLog) :
        (cbLog[i].before.status = "waiting_approval"
            /\ cbLog[i].run_id = cbLog[i].before.run_id) =>
                cbLog[i].reply \notin C38_Rejections

\* C39: once the JSON-RPC connection is closed, request and respond (through
\* write_obj) raise and nothing more is written to the subprocess stdin; a
\* decision submitted after the close is answered with the send failure and
\* the row keeps its pending approval.
C39_ClosedStep ==
    rpc_closed =>
        /\ stdin' = stdin
        /\ \A c \in Callers :
              (callerPc[c] = "idle" /\ callerPc'[c] # "idle") =>
                  callerPc'[c] = "raised"
        /\ \A t \in CbTasks :
              (/\ cbTask[t].pc = "new" /\ cbTask'[t].pc # "new"
               /\ active.status = "waiting_approval"
               /\ active.run_id = cbTask'[t].run_id
               /\ active.pending # NoPending
               /\ active_runs # 0) =>
                  /\ cbTask'[t].pc = "done"
                  /\ cbTask'[t].reply = FailedToSend
                  /\ active' = active

NewlinePositions(bs) == {i \in 1..Len(bs) : bs[i] = "nl"}

\* The stretch of bytes that the newline at position i terminates.
TerminatedBy(bs, i) ==
    LET before == {j \in NewlinePositions(bs) : j < i}
        from == IF before = {} THEN 1
                ELSE 1 + CHOOSE j \in before : \A k \in before : k <= j
    IN  SubSeq(bs, from, i - 1)

\* The non-blank lines of a byte stream, in order, read off the whole stream.
LinesOf(bs) ==
    LET nls == NewlinePositions(bs)
        kth(k) == CHOOSE i \in nls : Cardinality({j \in nls : j <= i}) = k
        all == [k \in 1..Cardinality(nls) |-> strip(decode(TerminatedBy(bs, kth(k))))]
    IN  SelectSeq(all, LAMBDA l : l # <<>>)

\* The bytes after the last newline of a byte stream.
Unterminated(bs) ==
    LET nls == NewlinePositions(bs)
    IN  IF nls = {} THEN bs
        ELSE SubSeq(bs, 1 + (CHOOSE j \in nls : \A k \in nls : k <= j), Len(bs))

\* C40: the lines the buffer has returned depend only on the bytes fed, not on
\* how they were cut into chunks: after any feeds they are the non-blank
\* lines of the concatenation, in order, the same as one feed of the
\* concatenation returns; the bytes after the last newline are held in the
\* buffer, neither returned early nor lost.
C40_ChunkingIrrelevant ==
    callArgs.fn = "feed" =>
        LET fedBytes == SubSeq(callArgs.stream, 1, lineBuf.fed)
            atOnce == feed(<<>>, fedBytes)
        IN  /\ lineBuf.out = LinesOf(fedBytes)
            /\ lineBuf.out = atOnce.out
            /\ lineBuf._buf = Unterminated(fedBytes)
            /\ lineBuf._buf = atOnce._buf

\* A two-byte character fed one byte at a time is returned whole once its
\* newline arrives, and the byte after the newline is held back.
C40_Witness ==
    /\ callArgs.fn = "feed"
    /\ callArgs.stream = <<"hi", "lo", "nl", "a">>
    /\ lineBuf.feeds = 4
    /\ lineBuf.out = << <<"e'">> >>
    /\ lineBuf._buf = <<"a">>

====
